---- MODULE Spec2Model ----
(***************************************************************************)
(* jsonl-resumable: a byte-offset index over a line-delimited file         *)
(* (JsonlIndex, index.py) and the resumable batch processor built on it    *)
(* (BatchProcessor, batch.py) with its progress file (progress.py).        *)
(*                                                                         *)
(* The source file is a sequence of bytes over {"1", "\n"}: a line "11"    *)
(* is the JSON number 11, an empty line is not valid JSON.                 *)
(***************************************************************************)
EXTENDS Integers, Sequences, FiniteSets, TLC

\* ------------------------------------------------------------------ bounds
MaxFileLen == 2
CheckpointInterval == 2

NL == "\n"
Bytes == {"1", NL}
\* Modification times: opaque stamps, compared for equality only.
Mtimes == {"t0", "t1"}
\* Job ids in the progress file; sessions are run for the ids of SessionJobs, the
\* other id is a cursor left there by an earlier run.
Jobs == {"j1", "j2"}
SessionJobs == {"j1"}
OtherJobs == Jobs \ SessionJobs
Procs == {"p1"}
\* Two writers of one progress file, each checkpointing its own job.
Writers == {"w1", "w2"}
JobOf(w) == IF w = "w1" THEN "j1" ELSE "j2"
Idle == [pc |-> "idle"]
NoWriters == [w \in Writers |-> Idle]
\* Two readers of one index.
Readers == {"r1", "r2"}
NoIter == [pc |-> "idle", start |-> 0, out |-> <<>>, pos |-> 0]
NoReaders == [r \in Readers |-> NoIter]
\* keep_open=False: there is no shared handle, every open() opens the file anew.
NoHandle == [open |-> FALSE, pos |-> 0]
\* No async stream has been made.
NoStream == [made |-> FALSE]

FORMAT_VERSION == "1.0"
INDEX_VERSION == "1.0"
Now == "ts"
Null == "null"

VARIABLES
    fileBytes,      \* content of the source file
    fileMtime,      \* st_mtime of the source file
    indexFile,      \* content of the companion .idx file
    progressFile,   \* content of the companion .progress file
    lines,          \* JsonlIndex._lines
    meta,           \* JsonlIndex._meta
    bp,             \* the BatchProcessor objects, by name
    last,           \* what the last call did: its outcome as the caller sees it
    ckpt,           \* per job: position of the last in-session checkpoint(), while it stands
    yielded,        \* per job: line numbers handed to the caller since the cursor was created
    rmw,            \* per writer: the update_job_progress call it is in the middle of
    handle,         \* JsonlIndex._file_handle: whether keep_open holds one, and its read position
    iters,          \* per reader: the iter_from generator it holds
    stream,         \* an AsyncStreamContext and the generator it handed out
    interval        \* JsonlIndex._checkpoint_interval

vars == <<fileBytes, fileMtime, indexFile, progressFile, lines, meta, bp, last, ckpt,
          yielded, rmw, handle, iters, stream, interval>>
vars_but_last == <<fileBytes, fileMtime, indexFile, progressFile, lines, meta, bp, ckpt,
                   yielded, rmw, handle, iters, stream, interval>>

\* ------------------------------------------------------------- source file
RECURSIVE SeqsUpTo(_)
SeqsUpTo(n) ==
    IF n = 0 THEN {<<>>}
    ELSE LET S == SeqsUpTo(n - 1)
         IN  S \cup {Append(s, b) : s \in {t \in S : Len(t) = n - 1}, b \in Bytes}

\* Length of the line that starts at 0-based byte offset off (off < Len(bytes)):
\* up to and including the next "\n", or whatever remains.
LineLenAt(bytes, off) ==
    LET ends == {k \in 1..(Len(bytes) - off) : bytes[off + k] = NL}
    IN  IF ends = {} THEN Len(bytes) - off
        ELSE CHOOSE k \in ends : \A m \in ends : k <= m

\* The bytes of that line.
LineAt(bytes, off) == SubSeq(bytes, off + 1, off + LineLenAt(bytes, off))

\* bytes.decode().rstrip("\n\r"): every trailing terminator goes.
RECURSIVE RStrip(_)
RStrip(line) ==
    IF Len(line) > 0 /\ line[Len(line)] = NL
    THEN RStrip(SubSeq(line, 1, Len(line) - 1))
    ELSE line

\* json.loads on a stripped line: a run of 1s is a number, the empty text fails.
JsonOk(text) == Len(text) > 0

RECURSIVE JsonLoads(_)
JsonLoads(text) ==
    IF Len(text) = 0 THEN 0
    ELSE 10 * JsonLoads(SubSeq(text, 1, Len(text) - 1)) + 1

\* ------------------------------------------------------------------- index
\* The scan loop of _build_index and update: entries from byte offset off on.
RECURSIVE ScanFrom(_, _, _)
ScanFrom(bytes, off, line_number) ==
    IF off >= Len(bytes) THEN <<>>
    ELSE LET len == LineLenAt(bytes, off)
         IN  <<[line_number |-> line_number, offset |-> off, length |-> len]>>
             \o ScanFrom(bytes, off + len, line_number + 1)

\* The checkpoints the scan loops take: line_number % checkpoint_interval == 0.
CheckpointsEvery(checkpoint_interval, entries) ==
    LET ks == {i \in 1..Len(entries) : entries[i].line_number % checkpoint_interval = 0}
    IN  [k \in {entries[i].line_number : i \in ks} |->
            entries[CHOOSE i \in ks : entries[i].line_number = k].offset]

\* The same for an index object made with the interval CheckpointInterval.
CheckpointsOf(entries) == CheckpointsEvery(CheckpointInterval, entries)

BuildLines(bytes) == ScanFrom(bytes, 0, 0)

\* The metadata _build_index makes in an object with the given interval.
BuildMetaWith(checkpoint_interval, bytes, file_size, file_mtime) ==
    [file_size |-> file_size,
     file_mtime |-> file_mtime,
     total_lines |-> Len(BuildLines(bytes)),
     checkpoint_interval |-> checkpoint_interval,
     checkpoints |-> CheckpointsEvery(checkpoint_interval, BuildLines(bytes)),
     indexed_at |-> Now,
     version |-> INDEX_VERSION]

BuildMeta(bytes, file_size, file_mtime) ==
    BuildMetaWith(CheckpointInterval, bytes, file_size, file_mtime)

\* A checkpoint key as the index file holds it (a JSON object key is a string),
\* and the line number it stands for.
StrKey(k) == <<"str", k>>
IntKey(s) == s[2]

\* The index file written by save(): the envelope of the format section, the
\* table as (offset, length) pairs without line numbers.
SaveIndex(m, ls) ==
    [exists |-> TRUE,
     parsable |-> TRUE,
     version |-> INDEX_VERSION,
     sections |-> {"meta", "lines"},
     wellformed |-> {"meta", "lines"},
     meta |-> [m EXCEPT !.checkpoints =
                  [s \in {StrKey(k) : k \in DOMAIN m.checkpoints} |->
                      m.checkpoints[IntKey(s)]]],
     lines |-> [i \in 1..Len(ls) |-> <<ls[i].offset, ls[i].length>>]]

None == [ok |-> FALSE]
Some(v) == [ok |-> TRUE, v |-> v]
\* A call that raised e.
Err(e) == [ok |-> FALSE, err |-> e]
Raised(r) == ~r.ok /\ r # None

\* A load() that numbers the restored entries from 1.
LoadIndex_OneBased(f) ==
    IF ~f.exists THEN None
    ELSE IF ~f.parsable THEN None
    ELSE IF f.version # INDEX_VERSION THEN None
    ELSE IF f.sections # {"meta", "lines"} THEN None
    ELSE IF f.wellformed # {"meta", "lines"} THEN None
    ELSE Some([meta |-> [f.meta EXCEPT !.checkpoints =
                            [k \in {IntKey(s) : s \in DOMAIN f.meta.checkpoints} |->
                                f.meta.checkpoints[StrKey(k)]]],
               lines |-> [i \in 1..Len(f.lines) |->
                            [line_number |-> i,
                             offset |-> f.lines[i][1],
                             length |-> f.lines[i][2]]]])

\* A load() that takes an envelope of any format version.
LoadIndex_AnyVersion(f) ==
    IF ~f.exists THEN None
    ELSE IF ~f.parsable THEN None
    ELSE IF f.sections # {"meta", "lines"} THEN None
    ELSE IF f.wellformed # {"meta", "lines"} THEN None
    ELSE Some([meta |-> [f.meta EXCEPT !.checkpoints =
                            [k \in {IntKey(s) : s \in DOMAIN f.meta.checkpoints} |->
                                f.meta.checkpoints[StrKey(k)]]],
               lines |-> [i \in 1..Len(f.lines) |->
                            [line_number |-> i - 1,
                             offset |-> f.lines[i][1],
                             length |-> f.lines[i][2]]]])

\* load(): none for a missing or unparsable file, a missing or other format
\* version, a missing section, metadata without its required fields or table
\* entries that are not (offset, length) pairs;
\* checkpoint keys become integers again, line numbers are the positions.
LoadIndex(f) ==
    IF ~f.exists THEN None
    ELSE IF ~f.parsable THEN None
    ELSE IF f.version # INDEX_VERSION THEN None
    ELSE IF f.sections # {"meta", "lines"} THEN None
    ELSE IF f.wellformed # {"meta", "lines"} THEN None
    ELSE Some([meta |-> [f.meta EXCEPT !.checkpoints =
                            [k \in {IntKey(s) : s \in DOMAIN f.meta.checkpoints} |->
                                f.meta.checkpoints[StrKey(k)]]],
               lines |-> [i \in 1..Len(f.lines) |->
                            [line_number |-> i - 1,
                             offset |-> f.lines[i][1],
                             length |-> f.lines[i][2]]]])

total_lines == meta.total_lines

\* ----------------------------------------------------------- progress file
NoFile == [exists |-> FALSE]

\* A save_progress that leaves completed_at out.
SaveProgress_NoCompletedAt(jobs) ==
    [exists |-> TRUE,
     json |-> "object",
     format_version |-> FORMAT_VERSION,
     jobs_kind |-> "object",
     incomplete |-> {},
     jobs |-> [j \in DOMAIN jobs |->
                 [position |-> jobs[j].position,
                  file_size |-> jobs[j].file_size,
                  file_mtime |-> jobs[j].file_mtime,
                  status |-> jobs[j].status,
                  created_at |-> jobs[j].created_at,
                  last_checkpoint_at |-> jobs[j].last_checkpoint_at,
                  completed_at |-> Null]]]

\* save_progress: the job id becomes the key, the cursor's other fields the value.
SaveProgress(jobs) ==
    [exists |-> TRUE,
     json |-> "object",
     format_version |-> FORMAT_VERSION,
     jobs_kind |-> "object",
     incomplete |-> {},
     jobs |-> [j \in DOMAIN jobs |->
                 [position |-> jobs[j].position,
                  file_size |-> jobs[j].file_size,
                  file_mtime |-> jobs[j].file_mtime,
                  status |-> jobs[j].status,
                  created_at |-> jobs[j].created_at,
                  last_checkpoint_at |-> jobs[j].last_checkpoint_at,
                  completed_at |-> jobs[j].completed_at]]]

EmptyJobs == [j \in {} |-> 0]

\* load_progress. The content of the file is text that is not UTF-8 ("binary"),
\* text that is not JSON ("invalid", the empty file included), a JSON value that
\* is not an object ("array") or a JSON object; the value under "jobs" is absent,
\* not an object ("array") or an object, and `incomplete` names the job records
\* without a required field. json.JSONDecodeError, KeyError, TypeError and
\* FileNotFoundError are caught and give none, the other exceptions escape.
LoadProgress(f) ==
    IF ~f.exists THEN None
    ELSE IF f.json = "binary" THEN Err("UnicodeDecodeError")
    ELSE IF f.json = "invalid" THEN None
    ELSE IF f.json # "object" THEN Err("AttributeError")
    ELSE IF f.format_version # FORMAT_VERSION THEN None
    ELSE IF f.jobs_kind = "absent" THEN [ok |-> TRUE, jobs |-> EmptyJobs]
    ELSE IF f.jobs_kind # "object" THEN Err("AttributeError")
    ELSE IF f.incomplete \cap DOMAIN f.jobs # {} THEN None
    ELSE [ok |-> TRUE,
          jobs |-> [j \in DOMAIN f.jobs |->
                      [job_id |-> j,
                       position |-> f.jobs[j].position,
                       file_size |-> f.jobs[j].file_size,
                       file_mtime |-> f.jobs[j].file_mtime,
                       status |-> f.jobs[j].status,
                       created_at |-> f.jobs[j].created_at,
                       last_checkpoint_at |-> f.jobs[j].last_checkpoint_at,
                       completed_at |-> f.jobs[j].completed_at]]]

\* load_progress(path) or {}
LoadedJobs(f) == IF LoadProgress(f).ok THEN LoadProgress(f).jobs ELSE EmptyJobs

\* An update that saves a map of the one cursor it was given.
UpdateJobProgress_Overwrites(f, job) ==
    IF Raised(LoadProgress(f)) THEN f
    ELSE SaveProgress([j \in {job.job_id} |-> job])

\* update_job_progress: load the whole map, replace one entry, save the whole map.
UpdateJobProgress(f, job) ==
    IF Raised(LoadProgress(f)) THEN f
    ELSE
    SaveProgress([j \in (DOMAIN LoadedJobs(f)) \cup {job.job_id} |->
                    IF j = job.job_id THEN job ELSE LoadedJobs(f)[j]])

\* A delete that writes an empty map.
DeleteJobProgress_All(f, job_id) ==
    IF ~LoadProgress(f).ok \/ job_id \notin DOMAIN LoadProgress(f).jobs THEN f
    ELSE SaveProgress(EmptyJobs)

\* delete_job_progress: the file is written only when the id is there.
DeleteJobProgress(f, job_id) ==
    IF ~LoadProgress(f).ok \/ job_id \notin DOMAIN LoadProgress(f).jobs THEN f
    ELSE SaveProgress([j \in (DOMAIN LoadProgress(f).jobs) \ {job_id} |->
                         LoadProgress(f).jobs[j]])

\* The stored cursor of a job, as a caller of load_progress sees it.
HasJob(f, j) == LoadProgress(f).ok /\ j \in DOMAIN LoadProgress(f).jobs
StoredJob(f, j) == LoadProgress(f).jobs[j]

\* --------------------------------------------------------- batch processor
NoJob == [some |-> FALSE]
SomeJob(job) == [some |-> TRUE, v |-> job]
NoGen == [st |-> "none", cur |-> 0]
NoItem == <<>>

\* BatchProcessor.__init__
Fresh(j, aj) ==
    [job_id |-> j, as_json |-> aj, job |-> NoJob, position |-> 0,
     exhausted |-> FALSE, entered |-> FALSE,
     inWith |-> FALSE,      \* between __enter__ returning and __exit__
     gen |-> NoGen,         \* the generator of __iter__ the caller holds
     started |-> FALSE,     \* next() was called since __enter__
     drained |-> FALSE]     \* an iteration ran to its end since __enter__ / reset()

\* What the last call was and how it ended.
\*   item:    the item a next() yielded
\*   first:   the call was the first next() of a session
\*   pre:     the progress file as __enter__, __exit__ and the resets found it
\*   deleted: the cursor a reset deleted, kept through the __enter__ that follows it
Obs(op, p, res) ==
    [op |-> op, proc |-> p, res |-> res, item |-> NoItem, first |-> FALSE,
     pre |-> NoFile, deleted |-> NoJob]

EnvObs(op) == Obs(op, "-", "-")

\* The stored cursor of job id j in progress file f, if any.
StoredOpt(f, j) == IF HasJob(f, j) THEN SomeJob(StoredJob(f, j)) ELSE NoJob

\* ckpt[j] is {} or {P}.
NoCkpt == {}
ClearCkpt(j) == [ckpt EXCEPT ![j] = NoCkpt]

\* A new cursor that takes the fingerprint from the index, not from the file.
NewJob_IndexFingerprint(job_id, size, mtime) ==
    [job_id |-> job_id, position |-> 0, file_size |-> meta.file_size,
     file_mtime |-> meta.file_mtime, status |-> "in_progress", created_at |-> Now,
     last_checkpoint_at |-> Now, completed_at |-> Null]

\* The cursor __enter__ creates for a job id the progress file does not hold.
NewJob(job_id, size, mtime) ==
    [job_id |-> job_id, position |-> 0, file_size |-> size, file_mtime |-> mtime,
     status |-> "in_progress", created_at |-> Now, last_checkpoint_at |-> Now,
     completed_at |-> Null]

\* Nothing is going on beside the calls of the specification at hand.
\* The index object was made with checkpoint_interval = CheckpointInterval.
AuxIdle ==
    /\ rmw = NoWriters /\ handle = NoHandle /\ iters = NoReaders /\ stream = NoStream
    /\ interval = CheckpointInterval
AuxUnchanged == UNCHANGED <<rmw, handle, iters, stream, interval>>

Init ==
    /\ fileBytes \in SeqsUpTo(MaxFileLen)
    /\ fileMtime = "t0"
    /\ lines = BuildLines(fileBytes)
    /\ meta = BuildMeta(fileBytes, Len(fileBytes), fileMtime)
    /\ indexFile = SaveIndex(meta, lines)
    /\ progressFile \in {NoFile} \cup
           {SaveProgress([j \in {o} |-> NewJob(o, Len(fileBytes), fileMtime)]) : o \in OtherJobs}
    /\ \E j \in SessionJobs, aj \in BOOLEAN : bp = [p \in Procs |-> Fresh(j, aj)]
    /\ last = EnvObs("init")
    /\ ckpt = [j \in Jobs |-> NoCkpt]
    /\ yielded = [j \in Jobs |-> {}]
    /\ AuxIdle

IndexUnchanged == UNCHANGED <<indexFile, lines, meta>>
FileUnchanged == UNCHANGED <<fileBytes, fileMtime>>

\* A new BatchProcessor object takes the place of p: index.batch_processor(j, as_json=aj),
\* also after a crash of the process that held the old one.
Construct(p, j, aj) ==
    /\ bp' = [bp EXCEPT ![p] = Fresh(j, aj)]
    /\ last' = Obs("construct", p, "-")
    /\ UNCHANGED <<progressFile, ckpt, yielded>>
    /\ IndexUnchanged /\ FileUnchanged
    /\ AuxUnchanged

\* A freshness check that looks at the size only.
IsStale_SizeOnly(job, size, mtime) == job.file_size # size

IsStale(job, size, mtime) == job.file_size # size \/ job.file_mtime # mtime

\* A position check that is off by one.
IsInvalid_OffByOne(job) == job.position >= total_lines

IsInvalid(job) == job.position > total_lines

EnterObs(p, res) ==
    [Obs("enter", p, res) EXCEPT !.pre = progressFile, !.deleted = last.deleted]

\* BatchProcessor.__enter__
Enter(p) ==
    LET b == bp[p]
        size == Len(fileBytes)
        mtime == fileMtime
        ld == LoadProgress(progressFile)
        found == ld.ok /\ DOMAIN ld.jobs # {} /\ b.job_id \in DOMAIN ld.jobs
    IN
    /\ ~b.inWith
    /\ \A q \in (DOMAIN bp) \ {p} : ~(bp[q].inWith /\ bp[q].job_id = b.job_id)
    /\ IF found
       THEN LET job == ld.jobs[b.job_id] IN
            IF IsStale(job, size, mtime)
            THEN /\ bp' = [bp EXCEPT ![p].entered = TRUE, ![p].job = SomeJob(job)]
                 /\ last' = EnterObs(p, "StaleCheckpointError")
                 /\ UNCHANGED <<progressFile, ckpt, yielded>>
            ELSE IF IsInvalid(job)
            THEN /\ bp' = [bp EXCEPT ![p].entered = TRUE, ![p].job = SomeJob(job)]
                 /\ last' = EnterObs(p, "InvalidCheckpointError")
                 /\ UNCHANGED <<progressFile, ckpt, yielded>>
            ELSE /\ bp' = [bp EXCEPT ![p].entered = TRUE, ![p].job = SomeJob(job),
                                     ![p].position = job.position, ![p].inWith = TRUE,
                                     ![p].gen = NoGen, ![p].started = FALSE,
                                     ![p].drained = FALSE]
                 /\ last' = EnterObs(p, "resumed")
                 /\ UNCHANGED <<progressFile, ckpt, yielded>>
       ELSE LET job == NewJob(b.job_id, size, mtime) IN
            /\ progressFile' = UpdateJobProgress(progressFile, job)
            /\ bp' = [bp EXCEPT ![p].entered = TRUE, ![p].job = SomeJob(job),
                                ![p].position = 0, ![p].inWith = TRUE,
                                ![p].gen = NoGen, ![p].started = FALSE,
                                ![p].drained = FALSE]
            /\ last' = EnterObs(p, "created")
            /\ ckpt' = ClearCkpt(b.job_id)
            /\ yielded' = [yielded EXCEPT ![b.job_id] = {}]
    /\ IndexUnchanged /\ FileUnchanged
    /\ AuxUnchanged

\* A completion that forgets the completion time.
Completed_NoTime(job) ==
    [job EXCEPT !.status = "completed", !.last_checkpoint_at = Now]

\* The cursor __exit__ persists when it marks the job complete.
Completed(job) ==
    [job EXCEPT !.status = "completed", !.completed_at = Now, !.last_checkpoint_at = Now]

\* __exit__ marks the job complete exactly under this condition.
MarksComplete(b, exc) == ~exc /\ b.exhausted /\ b.job.some

\* BatchProcessor.__exit__; exc: the with body raised.
Exit(p, exc) ==
    LET b == bp[p] IN
    /\ b.inWith
    /\ IF MarksComplete(b, exc)
       THEN /\ progressFile' = UpdateJobProgress(progressFile, Completed(b.job.v))
            /\ bp' = [bp EXCEPT ![p].job = SomeJob(Completed(b.job.v)), ![p].inWith = FALSE]
            /\ last' = [Obs(IF exc THEN "exit_exc" ELSE "exit", p, "completed") EXCEPT
                              !.pre = progressFile]
            /\ ckpt' = ClearCkpt(b.job_id)
       ELSE /\ bp' = [bp EXCEPT ![p].inWith = FALSE]
            /\ last' = [Obs(IF exc THEN "exit_exc" ELSE "exit", p, "-") EXCEPT
                              !.pre = progressFile]
            /\ UNCHANGED <<progressFile, ckpt>>
    /\ UNCHANGED yielded
    /\ IndexUnchanged /\ FileUnchanged
    /\ AuxUnchanged

\* What __iter__ yields for a line: json.loads(line) or the line itself.
Record(as_json, text) ==
    IF as_json THEN [json |-> TRUE, val |-> JsonLoads(text)]
    ELSE [json |-> FALSE, text |-> text]

\* iter_from: a negative start is 0.
ClampStart(start_line) == IF start_line < 0 THEN 0 ELSE start_line

\* iter_from: nothing to read from this start.
IterEmpty(start_line) == ClampStart(start_line) >= Len(lines)

\* iter_from: the byte offset it seeks to.
SeekOffset(start_line) == lines[ClampStart(start_line) + 1].offset

\* This next() is the first one of the session.
FirstNext(p) == bp[p].inWith /\ ~bp[p].started

\* The loop of __iter__ ended: the underlying sequence is drained.
IterStop(p) ==
    /\ bp' = [bp EXCEPT ![p].exhausted = TRUE, ![p].gen = NoGen,
                        ![p].started = TRUE, ![p].drained = TRUE]
    /\ last' = [Obs("next", p, "stop") EXCEPT !.first = FirstNext(p)]
    /\ UNCHANGED yielded

\* One turn of the loop of __iter__ with the file read position at byte cur.
ReadStep(p, cur) ==
    LET b == bp[p] IN
    IF cur >= Len(fileBytes)
    THEN IterStop(p)
    ELSE LET line == LineAt(fileBytes, cur)
             text == RStrip(line)
             line_num == b.position
         IN  IF b.as_json /\ ~JsonOk(text)
             THEN /\ bp' = [bp EXCEPT ![p].position = line_num + 1, ![p].gen = NoGen,
                                      ![p].started = TRUE]
                  /\ last' = [Obs("next", p, "JSONDecodeError") EXCEPT !.first = FirstNext(p)]
                  /\ UNCHANGED yielded
             ELSE /\ bp' = [bp EXCEPT ![p].position = line_num + 1,
                                      ![p].gen = [st |-> "run", cur |-> cur + Len(line)],
                                      ![p].started = TRUE]
                  /\ last' = [Obs("next", p, "yield") EXCEPT
                                 !.item = <<line_num, Record(b.as_json, text)>>,
                                 !.first = FirstNext(p)]
                  /\ yielded' = [yielded EXCEPT ![b.job_id] = @ \cup {line_num}]

\* An iteration that looks at the file although the job is completed.
AlreadyCompleted_Never(b) == FALSE

\* __iter__: the job is already completed, there is nothing to yield.
AlreadyCompleted(b) == b.job.some /\ b.job.v.status = "completed"

\* next() on the generator of BatchProcessor.__iter__: on a generator that has not
\* run yet (the caller's for loop starts one) or on the one the caller holds.
NextItem(p) ==
    LET b == bp[p] IN
    /\ IF b.gen.st = "run"
       THEN ReadStep(p, b.gen.cur)
       ELSE IF ~b.entered
       THEN /\ last' = [Obs("next", p, "RuntimeError") EXCEPT !.first = FirstNext(p)]
            /\ UNCHANGED <<bp, yielded>>
       ELSE IF AlreadyCompleted(b)
       THEN IterStop(p)
       ELSE IF IterEmpty(b.position)
       THEN IterStop(p)
       ELSE ReadStep(p, SeekOffset(b.position))
    /\ UNCHANGED <<progressFile, ckpt>>
    /\ IndexUnchanged /\ FileUnchanged
    /\ AuxUnchanged

\* The caller leaves its for loop (break) and lets go of the generator.
DropIter(p) ==
    /\ bp[p].gen.st = "run"
    /\ bp' = [bp EXCEPT ![p].gen = NoGen]
    /\ last' = Obs("break", p, "-")
    /\ UNCHANGED <<progressFile, ckpt, yielded>>
    /\ IndexUnchanged /\ FileUnchanged
    /\ AuxUnchanged

\* A checkpoint() that forgets to store the position.
CheckpointJob_KeepsPosition(job, position) == [job EXCEPT !.last_checkpoint_at = Now]

\* The cursor checkpoint() persists.
CheckpointJob(job, position) ==
    [job EXCEPT !.position = position, !.last_checkpoint_at = Now]

\* checkpoint() refuses to run exactly under this condition.
CheckpointRefused(b) == ~b.job.some

\* BatchProcessor.checkpoint
Checkpoint(p) ==
    LET b == bp[p] IN
    /\ IF CheckpointRefused(b)
       THEN /\ last' = Obs("checkpoint", p, "RuntimeError")
            /\ UNCHANGED <<bp, progressFile, ckpt>>
       ELSE LET job == CheckpointJob(b.job.v, b.position) IN
            /\ progressFile' = UpdateJobProgress(progressFile, job)
            /\ bp' = [bp EXCEPT ![p].job = SomeJob(job)]
            /\ last' = Obs("checkpoint", p, "ok")
            /\ ckpt' = [ckpt EXCEPT ![b.job_id] =
                           IF b.inWith /\ job.status = "in_progress"
                              /\ ~IsStale(job, Len(fileBytes), fileMtime)
                           THEN {b.position} ELSE NoCkpt]
    /\ UNCHANGED yielded
    /\ IndexUnchanged /\ FileUnchanged
    /\ AuxUnchanged

\* BatchProcessor.reset
Reset(p) ==
    LET b == bp[p] IN
    /\ progressFile' = DeleteJobProgress(progressFile, b.job_id)
    /\ bp' = [bp EXCEPT ![p].position = 0, ![p].job = NoJob, ![p].exhausted = FALSE]
    /\ last' = [Obs("reset", p, "-") EXCEPT
                   !.pre = progressFile, !.deleted = StoredOpt(progressFile, b.job_id)]
    /\ ckpt' = ClearCkpt(b.job_id)
    /\ yielded' = [yielded EXCEPT ![b.job_id] = {}]
    /\ IndexUnchanged /\ FileUnchanged
    /\ AuxUnchanged

\* JsonlIndex.reset_job / delete_job, called while no session owns the job id.
ResetJob(j) ==
    /\ \A p \in DOMAIN bp : ~(bp[p].inWith /\ bp[p].job_id = j)
    /\ progressFile' = DeleteJobProgress(progressFile, j)
    /\ last' = [Obs("reset_job", j, IF HasJob(progressFile, j) THEN "True" ELSE "False")
                   EXCEPT !.pre = progressFile, !.deleted = StoredOpt(progressFile, j)]
    /\ ckpt' = ClearCkpt(j)
    /\ yielded' = [yielded EXCEPT ![j] = {}]
    /\ UNCHANGED bp
    /\ IndexUnchanged /\ FileUnchanged
    /\ AuxUnchanged

\* ------------------------------------------------------- index operations
\* The operations that change the index are explored on files of up to MaxIdxLen
\* bytes, the ones that read through it on files of up to MaxReadLen bytes.
MaxIdxLen == 3
MaxReadLen == 4

\* What a call on the index did, with the index and the stat it started from.
IdxObs(op, arg, res) ==
    [op |-> op, arg |-> arg, res |-> res,
     pre |-> [lines |-> lines, meta |-> meta, indexFile |-> indexFile],
     stat |-> [size |-> Len(fileBytes), mtime |-> fileMtime],
     draw |-> <<>>,
     prev |-> None,
     proc |-> "-", item |-> NoItem, first |-> FALSE, deleted |-> NoJob]

BatchUnchanged == UNCHANGED <<progressFile, bp, yielded>>

\* The file as a scan finds it when it opens it after the caller's stat(): as it
\* was, or with a byte its writer appended in between.
ScanFiles ==
    {[bytes |-> fileBytes, mtime |-> fileMtime]} \cup
    {[bytes |-> Append(fileBytes, c), mtime |-> m] :
        c \in IF Len(fileBytes) < MaxIdxLen THEN Bytes ELSE {}, m \in Mtimes}

\* _build_index(stat.st_size, stat.st_mtime) followed by save() (auto_save on), in
\* an object made with the given interval.
BuildAndSaveWith(checkpoint_interval, at) ==
    /\ fileBytes' = at.bytes
    /\ fileMtime' = at.mtime
    /\ lines' = BuildLines(at.bytes)
    /\ meta' = BuildMetaWith(checkpoint_interval, at.bytes, Len(fileBytes), fileMtime)
    /\ indexFile' = SaveIndex(meta', lines')

BuildAndSave(at) == BuildAndSaveWith(interval, at)

\* JsonlIndex.rebuild (auto_save on)
Rebuild ==
    /\ \E at \in ScanFiles : BuildAndSave(at)
    /\ last' = IdxObs("rebuild", "-", "ok")
    /\ ckpt' = [j \in Jobs |-> NoCkpt]
    /\ BatchUnchanged
    /\ AuxUnchanged

\* update(): the merge of the new checkpoints into the old ones.
MergeCheckpoints(old, new) ==
    [k \in (DOMAIN old) \cup (DOMAIN new) |-> IF k \in DOMAIN new THEN new[k] ELSE old[k]]

\* An update() that takes a shrunken file for an unchanged one.
FileShrunk_Never(size, old_size) == FALSE

\* update(): the file is smaller than when it was indexed.
FileShrunk(size, old_size) == size < old_size

\* JsonlIndex.update (auto_save on)
Update ==
    LET old_size == meta.file_size
        size == Len(fileBytes)
    IN
    /\ IF size = old_size
       THEN /\ last' = IdxObs("update", "-", Some(0))
            /\ IndexUnchanged /\ FileUnchanged
       ELSE IF FileShrunk(size, old_size)
       THEN /\ last' = IdxObs("update", "-", [ok |-> FALSE, err |-> "ValueError"])
            /\ IndexUnchanged /\ FileUnchanged
       ELSE \E at \in ScanFiles :
            LET new_lines == ScanFrom(at.bytes, old_size, Len(lines)) IN
            /\ fileBytes' = at.bytes
            /\ fileMtime' = at.mtime
            /\ lines' = lines \o new_lines
            /\ meta' = [meta EXCEPT
                            !.checkpoints = MergeCheckpoints(@, CheckpointsEvery(interval, new_lines)),
                            !.file_size = size,
                            !.file_mtime = fileMtime,
                            !.total_lines = Len(lines \o new_lines)]
            /\ indexFile' = SaveIndex(meta', lines')
            /\ last' = IdxObs("update", "-", Some(Len(new_lines)))
    /\ ckpt' = [j \in Jobs |-> NoCkpt]
    /\ BatchUnchanged
    /\ AuxUnchanged

\* A freshness check that looks at the size only.
IsFresh_SizeOnly(m, current_size, current_mtime) == m.file_size = current_size

\* IndexMeta.is_fresh
IsFresh(m, current_size, current_mtime) ==
    m.file_size = current_size /\ m.file_mtime = current_mtime

\* _load_or_build adopts the persisted index exactly under this condition.
Adopts(f, current_size, current_mtime) ==
    /\ f.exists
    /\ LoadIndex(f).ok
    /\ IsFresh(LoadIndex(f).v.meta, current_size, current_mtime)

\* _load_or_build in a new index object made with the given interval.
LoadOrBuild(checkpoint_interval) ==
    /\ IF Adopts(indexFile, Len(fileBytes), fileMtime)
       THEN /\ lines' = LoadIndex(indexFile).v.lines
            /\ meta' = LoadIndex(indexFile).v.meta
            /\ last' = IdxObs("open", "-", "loaded")
            /\ UNCHANGED indexFile
            /\ FileUnchanged
       ELSE /\ \E at \in ScanFiles : BuildAndSaveWith(checkpoint_interval, at)
            /\ last' = IdxObs("open", "-", "built")
    /\ ckpt' = [j \in Jobs |-> NoCkpt]
    /\ BatchUnchanged

\* JsonlIndex(file_path): a new index object for the file, made with the interval
\* of the one before it.
Open ==
    /\ LoadOrBuild(interval)
    /\ AuxUnchanged

\* The intervals an index object is made with.
Intervals == 1..CheckpointInterval

\* JsonlIndex(file_path, checkpoint_interval=i)
OpenWith(checkpoint_interval) ==
    /\ LoadOrBuild(checkpoint_interval)
    /\ interval' = checkpoint_interval
    /\ UNCHANGED <<rmw, handle, iters, stream>>

\* JsonlIndex.save
Save ==
    /\ indexFile' = SaveIndex(meta, lines)
    /\ last' = IdxObs("save", "-", "ok")
    /\ UNCHANGED <<lines, meta, ckpt>>
    /\ FileUnchanged /\ BatchUnchanged
    /\ AuxUnchanged

\* Line numbers and start lines the read operations are called with.
LineArgs == (0 - 1)..(MaxReadLen + 1)

\* A bounds check that lets line_number = len(_lines) through to the last entry.
GetOffsetOf_OffByOne(line_number) ==
    IF line_number < 0 \/ line_number > Len(lines) \/ Len(lines) = 0
    THEN Err("IndexError")
    ELSE LET i == IF line_number = Len(lines) THEN Len(lines) ELSE line_number + 1
         IN  Some(<<lines[i].offset, lines[i].length>>)

\* get_offset
GetOffsetOf(line_number) ==
    IF line_number < 0 \/ line_number >= Len(lines)
    THEN Err("IndexError")
    ELSE Some(<<lines[line_number + 1].offset, lines[line_number + 1].length>>)

\* file_handle.seek(offset); file_handle.read(length): what is there, up to the
\* end of the file.
ReadAt(bytes, offset, length) ==
    IF offset >= Len(bytes) \/ length <= 0 THEN <<>>
    ELSE SubSeq(bytes, offset + 1,
                IF offset + length <= Len(bytes) THEN offset + length ELSE Len(bytes))

\* seek_line / read_line
SeekLineOf(line_number) ==
    IF ~GetOffsetOf(line_number).ok THEN GetOffsetOf(line_number)
    ELSE Some(RStrip(ReadAt(fileBytes, GetOffsetOf(line_number).v[1],
                            GetOffsetOf(line_number).v[2])))

\* read_json
ReadJsonOf(line_number) ==
    IF ~SeekLineOf(line_number).ok THEN SeekLineOf(line_number)
    ELSE IF ~JsonOk(SeekLineOf(line_number).v) THEN Err("JSONDecodeError")
    ELSE Some(JsonLoads(SeekLineOf(line_number).v))

\* A call that reads and changes nothing.
ReadOnly(op, arg, res) ==
    /\ last' = IdxObs(op, arg, res)
    /\ UNCHANGED ckpt
    /\ IndexUnchanged /\ FileUnchanged /\ BatchUnchanged
    /\ AuxUnchanged

\* JsonlIndex.get_offset
GetOffset(line_number) == ReadOnly("get_offset", line_number, GetOffsetOf(line_number))

\* JsonlIndex.read_line
ReadLine(line_number) == ReadOnly("read_line", line_number, SeekLineOf(line_number))

\* list(iter_from(start_line)): the lines the file object hands out from the seek
\* offset to the end of the file.
IterFromAll(start_line) ==
    IF IterEmpty(start_line) THEN <<>>
    ELSE LET es == ScanFrom(fileBytes, SeekOffset(start_line), 0)
         IN  [i \in 1..Len(es) |-> RStrip(ReadAt(fileBytes, es[i].offset, es[i].length))]

\* JsonlIndex.iter_from, consumed to its end
IterFrom(start_line) == ReadOnly("iter_from", start_line, Some(IterFromAll(start_line)))

\* read_json_many: the records of the lines asked for, in the order asked, or
\* the first error.
ReadJsonMany(line_numbers) ==
    LET bad == {k \in 1..Len(line_numbers) : ~ReadJsonOf(line_numbers[k]).ok}
    IN  IF bad # {}
        THEN ReadJsonOf(line_numbers[CHOOSE k \in bad : \A m \in bad : k <= m])
        ELSE Some([k \in 1..Len(line_numbers) |-> ReadJsonOf(line_numbers[k]).v])

\* sample is called with n up to MaxSample.
MaxSample == 2
SampleSizes == (0 - 1)..MaxSample
Seeds == {Some(0), Some(1), None}

\* The orders in which n distinct numbers of 0..total-1 can be drawn.
RECURSIVE Draws(_, _)
Draws(total, n) ==
    IF n = 0 THEN {<<>>}
    ELSE UNION {{Append(d, k) : k \in (0..(total - 1)) \ {d[i] : i \in 1..Len(d)}} :
                   d \in Draws(total, n - 1)}

\* random.Random(seed).sample(range(total), n): the generator is a function of
\* its seed; seed 0 stands for one that draws downwards, seed 1 for one that
\* draws upwards from 1 and wraps around.
SeededDraw(seed, total, n) ==
    [i \in 1..n |-> IF seed = 0 THEN total - i ELSE i % total]

\* A sample that draws from the shared generator whatever seed it is given.
LineNumberDraws_Unseeded(seed, total, n) == Draws(total, n)

\* rng = random.Random(seed); rng.sample(range(total), n): one draw for a given
\* seed, any draw when seed is None.
LineNumberDraws(seed, total, n) ==
    IF seed.ok THEN {SeededDraw(seed.v, total, n)} ELSE Draws(total, n)

\* sorted(range(n), key=lambda i: line_numbers[i]), 1-based
SortedIndices(line_numbers) ==
    [k \in 1..Len(line_numbers) |->
        CHOOSE i \in 1..Len(line_numbers) :
            Cardinality({j \in 1..Len(line_numbers) :
                            line_numbers[j] < line_numbers[i]}) = k - 1]

\* A sample that leaves the records in the order they were read.
RestoreOrder_Forgotten(sorted_indices, sorted_records) == sorted_records

\* sample: result[original_idx] = record, for the pairs of zip(sorted_indices,
\* sorted_records).
RestoreOrder(sorted_indices, sorted_records) ==
    [i \in 1..Len(sorted_records) |->
        sorted_records[CHOOSE k \in 1..Len(sorted_indices) : sorted_indices[k] = i]]

\* sample, once line_numbers are drawn
SampleOf(line_numbers) ==
    LET sorted_indices == SortedIndices(line_numbers)
        sorted_line_numbers == [k \in 1..Len(line_numbers) |-> line_numbers[sorted_indices[k]]]
        sorted_records == ReadJsonMany(sorted_line_numbers)
    IN  IF ~sorted_records.ok THEN sorted_records
        ELSE Some(RestoreOrder(sorted_indices, sorted_records.v))

\* sample: n clamped to the available lines
ClampN(n) == IF n < total_lines THEN n ELSE total_lines

\* The result of an immediately preceding call of sample with the same n and seed.
PrevSample(n, seed) ==
    IF seed.ok /\ last.op = "sample" /\ last.arg = <<n, seed>> THEN Some(last.res) ELSE None

\* JsonlIndex.sample(n, seed=seed)
Sample(n, seed) ==
    /\ IF total_lines = 0
       THEN last' = [IdxObs("sample", <<n, seed>>, Some(<<>>)) EXCEPT
                        !.prev = PrevSample(n, seed)]
       ELSE IF ClampN(n) < 0
       THEN last' = [IdxObs("sample", <<n, seed>>, Err("ValueError")) EXCEPT
                        !.prev = PrevSample(n, seed)]
       ELSE \E line_numbers \in LineNumberDraws(seed, total_lines, ClampN(n)) :
               last' = [IdxObs("sample", <<n, seed>>, SampleOf(line_numbers)) EXCEPT
                           !.draw = line_numbers, !.prev = PrevSample(n, seed)]
    /\ UNCHANGED ckpt
    /\ IndexUnchanged /\ FileUnchanged /\ BatchUnchanged
    /\ AuxUnchanged

\* ------------------------------------------------------------ environment
\* Another program appends a byte to the source file.
AppendByte(c) ==
    /\ Len(fileBytes) < MaxFileLen
    /\ fileBytes' = Append(fileBytes, c)
    /\ fileMtime' \in Mtimes
    /\ last' = EnvObs("append")
    /\ ckpt' = [j \in Jobs |-> NoCkpt]
    /\ UNCHANGED <<progressFile, bp, yielded>>
    /\ IndexUnchanged
    /\ AuxUnchanged

\* The file's modification time changes, its content does not.
Touch ==
    /\ fileMtime' \in Mtimes \ {fileMtime}
    /\ last' = EnvObs("touch")
    /\ ckpt' = [j \in Jobs |-> NoCkpt]
    /\ UNCHANGED <<fileBytes, progressFile, bp, yielded>>
    /\ IndexUnchanged
    /\ AuxUnchanged

Next ==
    \/ \E p \in Procs, j \in SessionJobs : Construct(p, j, bp[p].as_json)
    \/ \E p \in Procs : Enter(p)
    \/ \E p \in Procs, exc \in BOOLEAN : Exit(p, exc)
    \/ \E p \in Procs : NextItem(p)
    \/ \E p \in Procs : DropIter(p)
    \/ \E p \in Procs : Checkpoint(p)
    \/ \E p \in Procs : Reset(p)
    \/ \E j \in SessionJobs : ResetJob(j)
    \/ \E c \in Bytes : AppendByte(c)
    \/ Touch

Spec == Init /\ [][Next]_vars

\* ------------------------------------------------- the index on its own
\* The writer of the source file appends a byte.
FileAppend(c) ==
    /\ Len(fileBytes) < MaxIdxLen
    /\ fileBytes' = Append(fileBytes, c)
    /\ fileMtime' \in Mtimes
    /\ last' = EnvObs("append")
    /\ UNCHANGED ckpt
    /\ IndexUnchanged /\ BatchUnchanged
    /\ AuxUnchanged

\* The source file loses its last byte.
FileTruncate ==
    /\ Len(fileBytes) > 0
    /\ fileBytes' = SubSeq(fileBytes, 1, Len(fileBytes) - 1)
    /\ fileMtime' \in Mtimes
    /\ last' = EnvObs("truncate")
    /\ UNCHANGED ckpt
    /\ IndexUnchanged /\ BatchUnchanged
    /\ AuxUnchanged

\* The index file is deleted.
DeleteIndexFile ==
    /\ indexFile.exists
    /\ indexFile' = NoFile
    /\ last' = EnvObs("rm_index")
    /\ UNCHANGED <<lines, meta, ckpt>>
    /\ FileUnchanged /\ BatchUnchanged
    /\ AuxUnchanged

\* An index file nobody can parse.
GarbageFile == [exists |-> TRUE, parsable |-> FALSE]

\* The index file is overwritten with garbage.
CorruptIndexFile ==
    /\ indexFile # GarbageFile
    /\ indexFile' = GarbageFile
    /\ last' = EnvObs("corrupt_index")
    /\ UNCHANGED <<lines, meta, ckpt>>
    /\ FileUnchanged /\ BatchUnchanged
    /\ AuxUnchanged

\* JsonlIndex(file_path) on a file that has no index yet.
InitIdx ==
    /\ fileBytes \in SeqsUpTo(MaxIdxLen)
    /\ fileMtime = "t0"
    /\ lines = BuildLines(fileBytes)
    /\ meta = BuildMeta(fileBytes, Len(fileBytes), fileMtime)
    /\ indexFile = SaveIndex(meta, lines)
    /\ progressFile = NoFile
    /\ bp = [p \in Procs |-> Fresh(CHOOSE j \in SessionJobs : TRUE, TRUE)]
    /\ last = EnvObs("init")
    /\ ckpt = [j \in Jobs |-> NoCkpt]
    /\ yielded = [j \in Jobs |-> {}]
    /\ AuxIdle

NextIdx ==
    \/ Open
    \/ Rebuild
    \/ Update
    \/ Save
    \/ \E c \in Bytes : FileAppend(c)
    \/ FileTruncate
    \/ Touch
    \/ DeleteIndexFile
    \/ CorruptIndexFile

SpecIdx == InitIdx /\ [][NextIdx]_vars

\* --------------------------- index objects made with different intervals
NextCkpt ==
    \/ \E i \in Intervals : OpenWith(i)
    \/ Rebuild
    \/ Update
    \/ \E c \in Bytes : FileAppend(c)
    \/ Touch

SpecCkpt == InitIdx /\ [][NextCkpt]_vars

\* ------------------------------------------------ sessions and job reports
\* position / total_lines * 100.0 as an exact quotient, 100.0 for no lines.
ProgressPct(position, total) ==
    IF total > 0 THEN [num |-> position * 100, den |-> total]
    ELSE [num |-> 100, den |-> 1]

\* JsonlIndex._job_to_info (the three timestamps are carried over as they are)
JobToInfo(job, current_size, current_mtime) ==
    [job_id |-> job.job_id,
     position |-> job.position,
     status |-> job.status,
     total_lines |-> total_lines,
     progress_pct |-> ProgressPct(job.position, total_lines),
     created_at |-> job.created_at,
     last_checkpoint_at |-> job.last_checkpoint_at,
     completed_at |-> job.completed_at,
     is_stale |-> (job.file_size # current_size \/ job.file_mtime # current_mtime)]

\* get_job: None when there is no progress, no job or not this one.
GetJobOf(job_id) ==
    LET jobs == LoadProgress(progressFile) IN
    IF Raised(jobs) THEN jobs
    ELSE IF ~jobs.ok \/ DOMAIN jobs.jobs = {} \/ job_id \notin DOMAIN jobs.jobs THEN Some(None)
    ELSE Some(Some(JobToInfo(jobs.jobs[job_id], Len(fileBytes), fileMtime)))

\* list_jobs: the reports of the stored jobs, by job id.
ListJobsOf ==
    LET jobs == LoadProgress(progressFile) IN
    IF Raised(jobs) THEN jobs
    ELSE IF ~jobs.ok THEN Some(EmptyJobs)
    ELSE Some([j \in DOMAIN jobs.jobs |-> JobToInfo(jobs.jobs[j], Len(fileBytes), fileMtime)])

\* A call that reads the progress file and the index and changes nothing.
Report(op, arg, res) ==
    /\ last' = IdxObs(op, arg, res)
    /\ UNCHANGED vars_but_last

\* JsonlIndex.get_job
GetJob(job_id) == Report("get_job", job_id, GetJobOf(job_id))

\* JsonlIndex.list_jobs
ListJobs == Report("list_jobs", "-", ListJobsOf)

\* The cursor a session of job j leaves in the progress file when it ends after
\* pos items, checkpointed (st in_progress) or completed: it carries the
\* fingerprint __enter__ took from the file.
LeftCursor(j, pos, st) ==
    IF st = "completed"
    THEN Completed(CheckpointJob(NewJob(j, Len(fileBytes), fileMtime), pos))
    ELSE CheckpointJob(NewJob(j, Len(fileBytes), fileMtime), pos)

\* A whole session of job j on a file the index describes: __enter__ for a new
\* job, pos items, checkpoint(), __exit__.
SessionLeaves(j, pos, st) ==
    /\ lines = BuildLines(fileBytes)
    /\ ~HasJob(progressFile, j)
    /\ pos <= total_lines
    /\ st = "completed" => pos = total_lines
    /\ progressFile' = UpdateJobProgress(progressFile, LeftCursor(j, pos, st))
    /\ last' = [Obs("session", j, st) EXCEPT !.pre = progressFile]
    /\ UNCHANGED <<bp, ckpt, yielded>>
    /\ IndexUnchanged /\ FileUnchanged
    /\ AuxUnchanged

\* Sessions leave cursors; the stored jobs are reported while the file grows or
\* is cut short and the index is built anew.
NextJobs ==
    \/ \E j \in SessionJobs, pos \in 0..MaxIdxLen, st \in {"in_progress", "completed"} :
          SessionLeaves(j, pos, st)
    \/ \E j \in SessionJobs : ResetJob(j)
    \/ \E j \in Jobs : GetJob(j)
    \/ ListJobs
    \/ \E c \in Bytes : FileAppend(c)
    \/ FileTruncate
    \/ Rebuild

SpecJobs == InitIdx /\ [][NextJobs]_vars

\* ------------------------------------------ two processors for one job
\* Two BatchProcessor objects of one index for the same job id; their sessions
\* do not overlap and the file stays as it is.
Objects == {"p1", "p2"}

InitTwo ==
    /\ fileBytes \in SeqsUpTo(MaxFileLen)
    /\ fileMtime = "t0"
    /\ lines = BuildLines(fileBytes)
    /\ meta = BuildMeta(fileBytes, Len(fileBytes), fileMtime)
    /\ indexFile = SaveIndex(meta, lines)
    /\ progressFile = NoFile
    /\ bp = [p \in Objects |-> Fresh(CHOOSE j \in SessionJobs : TRUE, FALSE)]
    /\ last = EnvObs("init")
    /\ ckpt = [j \in Jobs |-> NoCkpt]
    /\ yielded = [j \in Jobs |-> {}]
    /\ AuxIdle

NextTwo ==
    \/ \E p \in Objects : Enter(p)
    \/ \E p \in Objects, exc \in BOOLEAN : Exit(p, exc)
    \/ \E p \in Objects : NextItem(p)
    \/ \E p \in Objects : Checkpoint(p)
    \/ \E p \in Objects : Reset(p)
    \/ \E j \in SessionJobs : ResetJob(j)

SpecTwo == InitTwo /\ [][NextTwo]_vars

\* ------------------------------------------- the progress file on its own
\* Cursors carry positions up to MaxPos.
MaxPos == 1

\* The cursors of job id j the store is given.
Cursors(j) ==
    {[job_id |-> j, position |-> pos, file_size |-> 0, file_mtime |-> "t0",
      status |-> st, created_at |-> Now, last_checkpoint_at |-> Now,
      completed_at |-> IF st = "completed" THEN Now ELSE Null] :
        pos \in 0..MaxPos, st \in {"in_progress", "completed"}}

\* The maps of job cursors: a cursor for each job id of a set of ids.
JobMaps ==
    UNION {{m \in [ids -> UNION {Cursors(j) : j \in Jobs}] :
               \A j \in ids : m[j].job_id = j} : ids \in SUBSET Jobs}

\* What a progress file can hold that save_progress did not write.
ProgressDamages == {"binary", "invalid", "array", "old_version", "no_version",
                    "no_jobs", "jobs_array", "bad_job"}

DamagedProgress(f, d) ==
    IF d \in {"binary", "invalid", "array"} THEN [exists |-> TRUE, json |-> d]
    ELSE IF d = "old_version" THEN [f EXCEPT !.format_version = "0.1"]
    ELSE IF d = "no_version" THEN [f EXCEPT !.format_version = Null]
    ELSE IF d = "no_jobs" THEN [f EXCEPT !.jobs_kind = "absent", !.jobs = EmptyJobs]
    ELSE IF d = "jobs_array" THEN [f EXCEPT !.jobs_kind = "array", !.jobs = EmptyJobs]
    ELSE [f EXCEPT !.incomplete = DOMAIN f.jobs]

\* What a call on the progress store did, and the file it found.
StoreObs(op, arg, res) == [op |-> op, arg |-> arg, res |-> res, pre |-> progressFile]

StoreFrame ==
    /\ UNCHANGED <<fileBytes, fileMtime, indexFile, lines, meta, bp, ckpt, yielded>>
    /\ AuxUnchanged

\* load_progress(progress_path)
PLoad ==
    /\ last' = StoreObs("load", "-", LoadProgress(progressFile))
    /\ UNCHANGED progressFile
    /\ StoreFrame

\* save_progress(progress_path, jobs)
PSave(jobs) ==
    /\ progressFile' = SaveProgress(jobs)
    /\ last' = StoreObs("save", jobs, "ok")
    /\ StoreFrame

\* update_job_progress(progress_path, job), run from start to end by one caller
PUpdateOne(job) ==
    /\ progressFile' = UpdateJobProgress(progressFile, job)
    /\ last' = StoreObs("update_one", job,
                        IF Raised(LoadProgress(progressFile))
                        THEN LoadProgress(progressFile) ELSE Some("-"))
    /\ StoreFrame

\* What delete_job_progress returns.
DeleteResult(f, job_id) ==
    IF Raised(LoadProgress(f)) THEN LoadProgress(f)
    ELSE Some(HasJob(f, job_id))

\* delete_job_progress(progress_path, job_id)
PDeleteOne(job_id) ==
    /\ progressFile' = DeleteJobProgress(progressFile, job_id)
    /\ last' = StoreObs("delete_one", job_id, DeleteResult(progressFile, job_id))
    /\ StoreFrame

\* Something else writes the progress file.
PDamage(d) ==
    /\ LoadProgress(progressFile).ok
    /\ d = "bad_job" => DOMAIN progressFile.jobs # {}
    /\ progressFile' = DamagedProgress(progressFile, d)
    /\ last' = StoreObs("damage", d, "-")
    /\ StoreFrame

\* The progress file is deleted.
PRemove ==
    /\ progressFile.exists
    /\ progressFile' = NoFile
    /\ last' = StoreObs("rm", "-", "-")
    /\ StoreFrame

InitProgress ==
    /\ fileBytes = <<>>
    /\ fileMtime = "t0"
    /\ lines = BuildLines(fileBytes)
    /\ meta = BuildMeta(fileBytes, Len(fileBytes), fileMtime)
    /\ indexFile = SaveIndex(meta, lines)
    /\ progressFile = NoFile
    /\ bp = [p \in Procs |-> Fresh(CHOOSE j \in SessionJobs : TRUE, TRUE)]
    /\ last = StoreObs("init", "-", "-")
    /\ ckpt = [j \in Jobs |-> NoCkpt]
    /\ yielded = [j \in Jobs |-> {}]
    /\ AuxIdle

NextProgress ==
    \/ PLoad
    \/ \E jobs \in JobMaps : PSave(jobs)
    \/ \E j \in Jobs : \E job \in Cursors(j) : PUpdateOne(job)
    \/ \E j \in Jobs : PDeleteOne(j)
    \/ \E d \in ProgressDamages : PDamage(d)
    \/ PRemove

SpecProgress == InitProgress /\ [][NextProgress]_vars

\* ------------------------------------------ two writers, one progress file
\* The cursor a session of writer w checkpoints at position pos.
CheckpointCursor(w, pos) ==
    [job_id |-> JobOf(w), position |-> pos, file_size |-> 0, file_mtime |-> "t0",
     status |-> "in_progress", created_at |-> Now, last_checkpoint_at |-> Now,
     completed_at |-> Null]

\* jobs[job.job_id] = job
WithJob(jobs, job) ==
    [j \in (DOMAIN jobs) \cup {job.job_id} |-> IF j = job.job_id THEN job ELSE jobs[j]]

\* update_job_progress, first statement: jobs = load_progress(progress_path) or {}
RmwLoad(w, pos) ==
    /\ rmw[w] = Idle
    /\ ~Raised(LoadProgress(progressFile))
    /\ rmw' = [rmw EXCEPT ![w] = [pc |-> "loaded",
                                  job |-> CheckpointCursor(w, pos),
                                  jobs |-> LoadedJobs(progressFile)]]
    /\ last' = StoreObs("rmw_load", w, "-")
    /\ UNCHANGED <<progressFile, ckpt>>
    /\ UNCHANGED <<fileBytes, fileMtime, indexFile, lines, meta, bp, yielded>>
    /\ UNCHANGED <<handle, iters, stream, interval>>

\* update_job_progress, the rest: jobs[job.job_id] = job; save_progress(...)
RmwSave(w) ==
    /\ rmw[w] # Idle
    /\ progressFile' = SaveProgress(WithJob(rmw[w].jobs, rmw[w].job))
    /\ ckpt' = [ckpt EXCEPT ![JobOf(w)] = {rmw[w].job.position}]
    /\ rmw' = [rmw EXCEPT ![w] = Idle]
    /\ last' = StoreObs("rmw_save", w, "-")
    /\ UNCHANGED <<fileBytes, fileMtime, indexFile, lines, meta, bp, yielded>>
    /\ UNCHANGED <<handle, iters, stream, interval>>

NextRmw ==
    \/ \E w \in Writers, pos \in 0..MaxPos : RmwLoad(w, pos)
    \/ \E w \in Writers : RmwSave(w)

SpecRmw == InitProgress /\ [][NextRmw]_vars

\* ------------------------------------- readers interleaved on one index
\* Source files of up to MaxShareLen bytes.
MaxShareLen == 3

\* self.open(): the handle kept by keep_open=True, or a handle of the reader's own.
ReadPos(r) == IF handle.open THEN handle.pos ELSE iters[r].pos
MoveTo(pos) == IF handle.open THEN [handle EXCEPT !.pos = pos] ELSE handle

ShareFrame ==
    /\ UNCHANGED <<progressFile, bp, ckpt, yielded, rmw, stream, interval>>
    /\ IndexUnchanged /\ FileUnchanged

\* index.iter_from(start_line): a generator that has not run yet.
ShareIter(r, start_line) ==
    /\ iters[r].pc \in {"idle", "done"}
    /\ iters' = [iters EXCEPT ![r] = [pc |-> "new", start |-> start_line,
                                      out |-> <<>>, pos |-> 0]]
    /\ last' = EnvObs("iter_from")
    /\ UNCHANGED handle
    /\ ShareFrame

\* `for line in f`, one turn, with the handle's read position at byte cur.
ShareRead(r, cur) ==
    IF cur >= Len(fileBytes)
    THEN /\ iters' = [iters EXCEPT ![r].pc = "done"]
         /\ handle' = MoveTo(cur)
    ELSE /\ iters' = [iters EXCEPT ![r].pc = "run",
                                   ![r].out = Append(@, RStrip(LineAt(fileBytes, cur))),
                                   ![r].pos = cur + Len(LineAt(fileBytes, cur))]
         /\ handle' = MoveTo(cur + Len(LineAt(fileBytes, cur)))

\* next() on the generator of iter_from: up to its next yield or its end. The
\* caller gives up after MaxShareLen + 1 lines.
ShareNext(r) ==
    /\ iters[r].pc \in {"new", "run"}
    /\ Len(iters[r].out) <= MaxShareLen
    /\ IF iters[r].pc = "new"
       THEN IF IterEmpty(iters[r].start)
            THEN iters' = [iters EXCEPT ![r].pc = "done"] /\ UNCHANGED handle
            ELSE ShareRead(r, SeekOffset(iters[r].start))
       ELSE ShareRead(r, ReadPos(r))
    /\ last' = EnvObs("next")
    /\ ShareFrame

\* index.read_line(line_number) between two turns of the iterations
ShareReadLine(line_number) ==
    /\ GetOffsetOf(line_number).ok
    /\ handle' = MoveTo(LET e == lines[line_number + 1]
                        IN  IF e.offset + e.length <= Len(fileBytes)
                            THEN e.offset + e.length ELSE Len(fileBytes))
    /\ last' = IdxObs("read_line", line_number, SeekLineOf(line_number))
    /\ UNCHANGED iters
    /\ ShareFrame

\* JsonlIndex(file_path, keep_open=...) on a file that has no index yet.
InitShare ==
    /\ fileBytes \in SeqsUpTo(MaxShareLen)
    /\ fileMtime = "t0"
    /\ lines = BuildLines(fileBytes)
    /\ meta = BuildMeta(fileBytes, Len(fileBytes), fileMtime)
    /\ indexFile = SaveIndex(meta, lines)
    /\ progressFile = NoFile
    /\ bp = [p \in Procs |-> Fresh(CHOOSE j \in SessionJobs : TRUE, TRUE)]
    /\ last = EnvObs("init")
    /\ ckpt = [j \in Jobs |-> NoCkpt]
    /\ yielded = [j \in Jobs |-> {}]
    /\ rmw = NoWriters
    /\ handle \in {NoHandle, [open |-> TRUE, pos |-> 0]}
    /\ iters = NoReaders
    /\ stream = NoStream
    /\ interval = CheckpointInterval

NextShare ==
    \/ \E r \in Readers, n \in 0..MaxShareLen : ShareIter(r, n)
    \/ \E r \in Readers : ShareNext(r)
    \/ \E n \in 0..MaxShareLen : ShareReadLine(n)

SpecShare == InitShare /\ [][NextShare]_vars

\* ------------------------------------------------------ async stream
\* The async generator a stream hands out: not made, made and not run yet,
\* suspended at a yield, run to its end, or closed by aclose(). `held` says the
\* caller still has a reference to it.
\* k counts the items it has yielded, cur the lines it has taken from the index.
NoAGen == [st |-> "none", k |-> 0, cur |-> 0, held |-> FALSE]

StreamFrame ==
    /\ UNCHANGED <<progressFile, bp, ckpt, yielded, rmw, handle, iters, interval>>
    /\ IndexUnchanged /\ FileUnchanged

\* The arguments async_stream is called with (as_json is left at True).
StartLines == (0 - 1)..MaxIdxLen
Skips == 0..1
Limits == {None, Some(1)}
DecodePolicies == {"raise", "skip", "raw"}

\* AsyncStreamContext.__init__
StreamMake(start_line, skip, limit, on_decode_error) ==
    /\ ~stream.made
    /\ stream' = [made |-> TRUE, entered |-> FALSE, exited |-> FALSE,
                  closed |-> FALSE, iterator |-> "none", start |-> start_line,
                  skip |-> skip, limit |-> limit, on_decode_error |-> on_decode_error,
                  position |-> start_line + skip, yielded_count |-> 0, gen |-> NoAGen]
    /\ last' = EnvObs("async_stream")
    /\ StreamFrame

\* AsyncStreamContext.__aenter__
StreamEnter ==
    /\ stream.made /\ ~stream.entered
    /\ IF Len(fileBytes) < meta.file_size
       THEN /\ last' = IdxObs("aenter", "-", Err("FileTruncatedError"))
            /\ UNCHANGED stream
       ELSE /\ last' = IdxObs("aenter", "-", Some("-"))
            /\ stream' = [stream EXCEPT !.entered = TRUE]
    /\ StreamFrame

\* AsyncStreamContext.__aiter__: a new generator of _iterate(); nothing is
\* assigned to self._iterator. The caller iterates an open stream once.
StreamIter ==
    /\ stream.made
    /\ \/ stream.gen.st = "none"
       \/ stream.gen.st \in {"finished", "closed"} /\ stream.closed
    /\ stream' = [stream EXCEPT !.gen = [st |-> "new", k |-> 0, cur |-> 0, held |-> TRUE]]
    /\ last' = EnvObs("aiter")
    /\ StreamFrame

\* index.aiter_json_from(start_line, skip=, limit=, on_decode_error=): the line
\* it starts at (a negative start is 0), and whether json.loads takes line n.
StreamFirstLine(s) == ClampStart(s.start) + s.skip
StreamLineOk(n) == JsonOk(SeekLineOf(n).v)

\* The lines it can still come to: the ones not taken yet, without those the
\* skip policy drops.
StreamCandidates(s, g) ==
    {n \in (StreamFirstLine(s) + g.cur)..(Len(lines) - 1) :
        s.on_decode_error # "skip" \/ StreamLineOk(n)}

\* It has another line to come to: the limit is not used up and a line is left.
StreamHasNext(s, g) ==
    /\ s.limit.ok => g.k < s.limit.v
    /\ StreamCandidates(s, g) # {}

\* That line.
StreamNextLine(s, g) ==
    CHOOSE n \in StreamCandidates(s, g) : \A m \in StreamCandidates(s, g) : n <= m

\* __anext__ on the generator of _iterate(): up to its next yield or its end.
StreamNext ==
    /\ stream.made
    /\ stream.gen.st \in {"new", "suspended"}
    /\ stream.gen.held
    /\ IF stream.gen.st = "new" /\ stream.closed
       THEN /\ stream' = [stream EXCEPT !.gen.st = "finished"]
            /\ last' = IdxObs("anext", "-", Err("StopAsyncIteration"))
       ELSE IF StreamHasNext(stream, stream.gen)
       THEN LET n == StreamNextLine(stream, stream.gen) IN
            IF stream.on_decode_error = "raise" /\ ~StreamLineOk(n)
            THEN /\ stream' = [stream EXCEPT !.gen.st = "finished"]
                 /\ last' = IdxObs("anext", "-", Err("JSONDecodeError"))
            ELSE /\ stream' = [stream EXCEPT !.gen.st = "suspended", !.gen.k = @ + 1,
                                             !.gen.cur = n - StreamFirstLine(stream) + 1,
                                             !.position = @ + 1, !.yielded_count = @ + 1]
                 /\ last' = IdxObs("anext", "-", Some(n))
       ELSE /\ stream' = [stream EXCEPT !.gen.st = "finished"]
            /\ last' = IdxObs("anext", "-", Err("StopAsyncIteration"))
    /\ StreamFrame

\* The body leaves its `async for` (break, or an exception on its way out) and
\* lets go of the generator.
StreamBreak ==
    /\ stream.made
    /\ stream.gen.st \in {"new", "suspended"}
    /\ stream.gen.held
    /\ stream' = [stream EXCEPT !.gen.held = FALSE]
    /\ last' = EnvObs("break")
    /\ StreamFrame

\* The event loop's finalizer closes a generator nobody refers to any more.
StreamFinalize ==
    /\ stream.made
    /\ stream.gen.st \in {"new", "suspended"}
    /\ ~stream.gen.held
    /\ stream' = [stream EXCEPT !.gen.st = "closed"]
    /\ last' = EnvObs("finalize")
    /\ StreamFrame

\* AsyncStreamContext.__aexit__, with or without an exception
StreamExit(exc) ==
    /\ stream.made /\ stream.entered /\ ~stream.exited
    /\ stream' = IF stream.iterator # "none"
                 THEN [stream EXCEPT !.closed = TRUE, !.exited = TRUE,
                                     !.gen.st = "closed", !.iterator = "none"]
                 ELSE [stream EXCEPT !.closed = TRUE, !.exited = TRUE]
    /\ last' = IdxObs("aexit", exc, Some("-"))
    /\ StreamFrame

\* The stream object is dropped; another one can be made.
StreamDrop ==
    /\ stream.made
    /\ stream.exited
    /\ stream' = NoStream
    /\ last' = EnvObs("drop")
    /\ StreamFrame

NextStream ==
    \/ \E n \in StartLines, skip \in Skips, limit \in Limits, policy \in DecodePolicies :
          StreamMake(n, skip, limit, policy)
    \/ StreamEnter
    \/ StreamIter
    \/ StreamNext
    \/ StreamBreak
    \/ StreamFinalize
    \/ \E exc \in BOOLEAN : StreamExit(exc)
    \/ StreamDrop
    \/ FileTruncate

SpecStream == InitIdx /\ [][NextStream]_vars

\* ------------------------------------------------ defective index files
\* What can be wrong with an index file that still parses: another or no
\* format_version, a section that is not there, a section of the wrong shape.
Damages == {"garbage", "old_version", "no_version", "no_meta", "no_lines",
            "bad_meta", "bad_lines"}

Damaged(f, d) ==
    IF d = "garbage" THEN GarbageFile
    ELSE IF d = "old_version" THEN [f EXCEPT !.version = "0.1"]
    ELSE IF d = "no_version" THEN [f EXCEPT !.version = Null]
    ELSE IF d = "no_meta" THEN [f EXCEPT !.sections = {"lines"}]
    ELSE IF d = "no_lines" THEN [f EXCEPT !.sections = {"meta"}]
    ELSE IF d = "bad_meta" THEN [f EXCEPT !.wellformed = {"lines"}]
    ELSE [f EXCEPT !.wellformed = {"meta"}]

\* The index file is overwritten with a damaged copy of itself.
DamageIndexFile(d) ==
    /\ LoadIndex(indexFile).ok
    /\ indexFile' = Damaged(indexFile, d)
    /\ last' = EnvObs("damage_index")
    /\ UNCHANGED <<lines, meta, ckpt>>
    /\ FileUnchanged /\ BatchUnchanged
    /\ AuxUnchanged

\* load_index(index_path), called on its own
LoadIdx ==
    /\ last' = IdxObs("load_index", "-", LoadIndex(indexFile))
    /\ UNCHANGED ckpt
    /\ IndexUnchanged /\ FileUnchanged /\ BatchUnchanged
    /\ AuxUnchanged

NextLoad ==
    \/ Open
    \/ LoadIdx
    \/ \E d \in Damages : DamageIndexFile(d)
    \/ DeleteIndexFile
    \/ \E c \in Bytes : FileAppend(c)
    \/ Touch

SpecLoad == InitIdx /\ [][NextLoad]_vars

\* --------------------------------------------- reading through the index
\* One byte sequence is the beginning of the other.
IsPrefix(a, b) == Len(a) <= Len(b) /\ a = SubSeq(b, 1, Len(a))

\* An index built for a file that has since stayed as it was, has grown, or has
\* been cut short; the calls that follow only read.
InitRead ==
    /\ fileBytes \in SeqsUpTo(MaxReadLen)
    /\ \E indexed \in SeqsUpTo(MaxReadLen) :
          /\ IsPrefix(indexed, fileBytes) \/ IsPrefix(fileBytes, indexed)
          /\ lines = BuildLines(indexed)
          /\ meta = BuildMeta(indexed, Len(indexed), "t0")
          /\ fileMtime = IF indexed = fileBytes THEN "t0" ELSE "t1"
    /\ indexFile = SaveIndex(meta, lines)
    /\ progressFile = NoFile
    /\ bp = [p \in Procs |-> Fresh(CHOOSE j \in SessionJobs : TRUE, TRUE)]
    /\ last = EnvObs("init")
    /\ ckpt = [j \in Jobs |-> NoCkpt]
    /\ yielded = [j \in Jobs |-> {}]
    /\ AuxIdle

NextRead ==
    \/ \E n \in LineArgs : GetOffset(n)
    \/ \E n \in LineArgs : ReadLine(n)
    \/ \E n \in LineArgs : IterFrom(n)
    \/ \E n \in SampleSizes, seed \in Seeds : Sample(n, seed)

SpecRead == InitRead /\ [][NextRead]_vars

\* ------------------------------------------------------------------ claims
\* The index describes the file as it is now: the file is as it was when indexed.
InSync == lines = BuildLines(fileBytes)

\* Line n (0-based) of the source file as the file has it, stripped.
FileLineText(n) == RStrip(LineAt(fileBytes, BuildLines(fileBytes)[n + 1].offset))

\* C1: on an unchanged file, after a session checkpointed at position P and ended
\* without completing, the next Enter of the job id succeeds with position P, and
\* the first item that session's iteration yields is (P, record of line P).
C1_ResumeAtCheckpoint ==
    \A p \in Procs : \A P \in ckpt[bp[p].job_id] :
        (last.proc = p /\ InSync) =>
            /\ last.op = "enter" =>
                  last.res = "resumed" /\ bp[p].inWith /\ bp[p].position = P
            /\ (last.op = "next" /\ last.first /\ last.res = "yield") =>
                  /\ P < Len(BuildLines(fileBytes))
                  /\ last.item = <<P, Record(bp[p].as_json, FileLineText(P))>>

\* A session resumed at a checkpoint P >= 1 and its iteration yielded its first item.
C1_Witness ==
    \E p \in Procs :
        /\ ckpt[bp[p].job_id] = {1}
        /\ InSync
        /\ last.proc = p /\ last.op = "next" /\ last.first /\ last.res = "yield"
        /\ bp[p].job.some /\ bp[p].job.v.position = 1

\* The live file's fingerprint is the one the cursor stores.
FingerprintMatches(job) == job.file_size = Len(fileBytes) /\ job.file_mtime = fileMtime

IsExit(op) == op \in {"exit", "exit_exc"}

\* C2: a session that ends by break or by an exception leaves the progress file as
\* it was: __exit__ writes nothing.
C2_ExitWritesNothing ==
    \A p \in Procs :
        (last.proc = p /\ (last.op = "exit_exc" \/ (last.op = "exit" /\ ~bp[p].drained)))
            => progressFile = last.pre

\* C3 as claimed: after a session whose iteration ran to its natural end exits
\* without an error, the stored cursor is completed with a completion time.
C3_DrainedCompletes ==
    \A p \in Procs :
        (last.proc = p /\ last.op = "exit" /\ bp[p].drained) =>
            /\ HasJob(progressFile, bp[p].job_id)
            /\ StoredJob(progressFile, bp[p].job_id).status = "completed"
            /\ StoredJob(progressFile, bp[p].job_id).completed_at # Null

\* C3, amended: after a session whose iteration ran to its natural end and in
\* which reset() was not called exits without an error, the stored cursor is
\* completed with a completion time, whether or not checkpoint() was ever called.
C3_DrainedCompletesUnlessReset ==
    \A p \in Procs :
        (last.proc = p /\ last.op = "exit" /\ bp[p].drained /\ bp[p].job.some) =>
            /\ last.res = "completed"
            /\ HasJob(progressFile, bp[p].job_id)
            /\ StoredJob(progressFile, bp[p].job_id).status = "completed"
            /\ StoredJob(progressFile, bp[p].job_id).completed_at # Null
            /\ StoredJob(progressFile, bp[p].job_id).completed_at = Now

\* A drained session exited without error and without any checkpoint: lines were
\* consumed, the stored position is still 0, and the job is completed.
C3_Witness ==
    \E p \in Procs :
        /\ last.proc = p /\ last.op = "exit" /\ bp[p].drained
        /\ bp[p].position > 0
        /\ HasJob(progressFile, bp[p].job_id)
        /\ StoredJob(progressFile, bp[p].job_id).position = 0
        /\ StoredJob(last.pre, bp[p].job_id).status = "in_progress"

\* The session p is in was entered on a cursor that was already completed.
InCompletedSession(p) ==
    bp[p].inWith /\ bp[p].job.some /\ bp[p].job.v.status = "completed"

\* C4 as claimed: Enter of a job id whose stored status is completed never raises,
\* its iteration yields nothing, and Exit leaves position and status as they were.
C4_CompletedNeverRaises ==
    \A p \in Procs :
        LET j == bp[p].job_id IN
        /\ (last.proc = p /\ last.op = "enter" /\ HasJob(last.pre, j)
              /\ StoredJob(last.pre, j).status = "completed")
             => last.res = "resumed"
        /\ (last.proc = p /\ last.op = "next" /\ InCompletedSession(p))
             => last.res = "stop"
        /\ (last.proc = p /\ IsExit(last.op) /\ HasJob(last.pre, j)
              /\ StoredJob(last.pre, j).status = "completed" /\ bp[p].job.some)
             => /\ HasJob(progressFile, j)
                /\ StoredJob(progressFile, j).status = "completed"
                /\ StoredJob(progressFile, j).position = StoredJob(last.pre, j).position

\* C4, amended: Enter of a job id whose stored status is completed, whose stored
\* fingerprint is the live file's and whose stored position is at most total_lines
\* does not raise; in that session (reset() not called) the iteration yields
\* nothing, and after Exit the stored position is unchanged and the status is
\* still completed.
C4_CompletedRerun ==
    \A p \in Procs :
        LET j == bp[p].job_id IN
        /\ (last.proc = p /\ last.op = "enter" /\ HasJob(last.pre, j)
              /\ StoredJob(last.pre, j).status = "completed"
              /\ FingerprintMatches(StoredJob(last.pre, j))
              /\ StoredJob(last.pre, j).position <= meta.total_lines)
             => /\ last.res = "resumed"
                /\ bp[p].inWith
                /\ bp[p].position = StoredJob(last.pre, j).position
        /\ (last.proc = p /\ last.op = "next" /\ InCompletedSession(p))
             => last.res = "stop" /\ last.item = NoItem
        /\ (last.proc = p /\ IsExit(last.op) /\ HasJob(last.pre, j)
              /\ StoredJob(last.pre, j).status = "completed" /\ bp[p].job.some)
             => /\ HasJob(progressFile, j)
                /\ StoredJob(progressFile, j).status = "completed"
                /\ StoredJob(progressFile, j).completed_at # Null
                /\ StoredJob(progressFile, j).position = StoredJob(last.pre, j).position

\* The iteration of a re-entered completed job ended at once, although the stored
\* position is below the number of lines.
C4_Witness ==
    \E p \in Procs :
        /\ last.proc = p /\ last.op = "next" /\ last.res = "stop"
        /\ InCompletedSession(p)
        /\ bp[p].position < meta.total_lines

\* The fingerprint a cursor stores is not the live file's.
FingerprintDiffers(job) == job.file_size # Len(fileBytes) \/ job.file_mtime # fileMtime

\* The last step was a reset immediately followed by this Enter of the same job id.
EnterAfterReset(p) ==
    /\ last.proc = p /\ last.op = "enter"
    /\ last.deleted.some /\ last.deleted.v.job_id = bp[p].job_id

\* C5: Enter of a job id whose stored fingerprint differs from the live file's
\* (size, mtime) fails with StaleCheckpointError and leaves the progress file as it
\* was; an Enter that follows the reset of such a cursor succeeds at position 0.
C5_StaleRaisesResetRecovers ==
    \A p \in Procs :
        LET j == bp[p].job_id IN
        /\ (last.proc = p /\ last.op = "enter" /\ HasJob(last.pre, j)
              /\ FingerprintDiffers(StoredJob(last.pre, j)))
             => /\ last.res = "StaleCheckpointError"
                /\ progressFile = last.pre
                /\ ~bp[p].inWith
        /\ (last.proc = p /\ last.op = "enter" /\ last.res = "StaleCheckpointError")
             => /\ HasJob(last.pre, j)
                /\ FingerprintDiffers(StoredJob(last.pre, j))
                /\ progressFile = last.pre
        /\ (EnterAfterReset(p) /\ FingerprintDiffers(last.deleted.v))
             => /\ last.res = "created"
                /\ bp[p].inWith
                /\ bp[p].position = 0

\* A cursor checkpointed past line 0 went stale, was reset, and Enter started over.
C5_Witness ==
    \E p \in Procs :
        /\ EnterAfterReset(p) /\ FingerprintDiffers(last.deleted.v)
        /\ last.deleted.v.position > 0
        /\ last.res = "created"

\* C6: Enter of a job id whose stored fingerprint is the live file's and whose
\* stored position is greater than total_lines fails with InvalidCheckpointError
\* and leaves the progress file as it was; a stored position equal to total_lines
\* is accepted and the iteration of that session yields nothing.
C6_InvalidPosition ==
    \A p \in Procs :
        LET j == bp[p].job_id IN
        /\ (last.proc = p /\ last.op = "enter" /\ HasJob(last.pre, j)
              /\ FingerprintMatches(StoredJob(last.pre, j))
              /\ StoredJob(last.pre, j).position > meta.total_lines)
             => /\ last.res = "InvalidCheckpointError"
                /\ progressFile = last.pre
                /\ ~bp[p].inWith
        /\ (last.proc = p /\ last.op = "enter" /\ HasJob(last.pre, j)
              /\ FingerprintMatches(StoredJob(last.pre, j))
              /\ StoredJob(last.pre, j).position = meta.total_lines)
             => /\ last.res = "resumed"
                /\ bp[p].inWith
                /\ bp[p].position = meta.total_lines
        /\ (last.proc = p /\ last.op = "next" /\ last.first /\ bp[p].job.some
              /\ bp[p].job.v.position = meta.total_lines)
             => last.res = "stop" /\ last.item = NoItem

\* Enter refused a cursor that lies beyond the index, and wrote nothing.
C6_Witness ==
    \E p \in Procs :
        /\ last.proc = p /\ last.op = "enter" /\ last.res = "InvalidCheckpointError"
        /\ StoredJob(progressFile, bp[p].job_id).position > meta.total_lines
        /\ StoredJob(progressFile, bp[p].job_id).status = "in_progress"

\* C7: Enter of a job id with no cursor in the progress store creates a cursor with
\* position 0, status in_progress and the live file's fingerprint and persists it
\* at once: the id is in the progress file for the whole session and at its Exit,
\* unless the session called reset().
C7_EnterClaimsJob ==
    \A p \in Procs :
        LET j == bp[p].job_id IN
        /\ (last.proc = p /\ last.op = "enter" /\ ~HasJob(last.pre, j))
             => /\ last.res = "created"
                /\ bp[p].inWith
                /\ HasJob(progressFile, j)
                /\ StoredJob(progressFile, j).position = 0
                /\ StoredJob(progressFile, j).status = "in_progress"
                /\ StoredJob(progressFile, j).completed_at = Null
                /\ StoredJob(progressFile, j).file_size = Len(fileBytes)
                /\ StoredJob(progressFile, j).file_mtime = fileMtime
                /\ \A o \in Jobs \ {j} : StoredOpt(progressFile, o) = StoredOpt(last.pre, o)
        /\ ((bp[p].inWith \/ (last.proc = p /\ IsExit(last.op))) /\ bp[p].job.some)
             => HasJob(progressFile, j)

\* Enter created the progress file for a source file touched after it was indexed.
C7_Witness ==
    \E p \in Procs :
        /\ last.proc = p /\ last.op = "enter" /\ last.res = "created"
        /\ ~last.pre.exists
        /\ fileMtime # meta.file_mtime
        /\ HasJob(progressFile, bp[p].job_id)

\* C8: at-least-once. For a file whose content is what was indexed and a cursor
\* that carries its fingerprint, every line below the stored position has been
\* yielded since the cursor was created, and every line has been yielded once
\* the cursor is completed.
C8_AtLeastOnce ==
    \A j \in SessionJobs :
        (HasJob(progressFile, j) /\ InSync /\ FingerprintMatches(StoredJob(progressFile, j)))
            => /\ \A n \in 0..(StoredJob(progressFile, j).position - 1) :
                     n < meta.total_lines => n \in yielded[j]
               /\ StoredJob(progressFile, j).status = "completed"
                     => \A n \in 0..(meta.total_lines - 1) : n \in yielded[j]

\* C9: checkpoint() and iteration outside an active session fail with RuntimeError.
C9_OutsideSessionRaises ==
    \A p \in Procs :
        (last.proc = p /\ last.op \in {"checkpoint", "next"} /\ ~bp[p].inWith)
            => last.res = "RuntimeError"

\* The job id the last reset was about.
ResetTarget == IF last.op = "reset" THEN bp[last.proc].job_id ELSE last.proc

\* C10: a reset deletes the cursor of its job id and leaves every other job's
\* record as it was; the Enter that follows it creates a new cursor with position
\* 0, in_progress and the live file's fingerprint, whatever the deleted cursor was.
C10_ResetDeletesOnlyThatJob ==
    /\ last.op \in {"reset", "reset_job"}
         => /\ ~HasJob(progressFile, ResetTarget)
            /\ last.deleted = StoredOpt(last.pre, ResetTarget)
            /\ \A o \in Jobs \ {ResetTarget} :
                  StoredOpt(progressFile, o) = StoredOpt(last.pre, o)
    /\ \A p \in Procs :
          EnterAfterReset(p)
             => /\ last.res = "created"
                /\ bp[p].inWith
                /\ bp[p].position = 0
                /\ bp[p].job = SomeJob(NewJob(bp[p].job_id, Len(fileBytes), fileMtime))
                /\ StoredOpt(progressFile, bp[p].job_id) = bp[p].job
                /\ \A o \in Jobs \ {bp[p].job_id} :
                      StoredOpt(progressFile, o) = StoredOpt(last.pre, o)

\* A completed cursor was reset next to another job's record, and Enter started
\* the job over.
C10_Witness ==
    \E p \in Procs : \E o \in OtherJobs :
        /\ EnterAfterReset(p)
        /\ last.deleted.v.status = "completed"
        /\ last.deleted.v.position > 0
        /\ HasJob(progressFile, o)
        /\ last.res = "created"

\* A line table is contiguous: line numbers are the positions, the first entry
\* starts at byte 0, every entry starts where the one before it ends.
Contiguous(ls) ==
    /\ \A i \in 1..Len(ls) : ls[i].line_number = i - 1
    /\ Len(ls) > 0 => ls[1].offset = 0
    /\ \A i \in 1..(Len(ls) - 1) : ls[i + 1].offset = ls[i].offset + ls[i].length

\* C11: after any sequence of build, extend, rebuild and load the line table is
\* contiguous and total_lines is the number of its entries.
C11_TableContiguous ==
    /\ Contiguous(lines)
    /\ meta.total_lines = Len(lines)

\* The content the file had when the index held by the last call was made, as far
\* as the file still shows it.
OldContent == SubSeq(fileBytes, 1, last.pre.meta.file_size)

\* The last call was an update() of an index that described the file as it was,
\* on a file that has only been appended to since.
UpdatedAfterAppend ==
    /\ last.op = "update"
    /\ last.pre.meta.file_size < Len(fileBytes)
    /\ last.pre.lines = BuildLines(OldContent)

\* C12: extend() after N lines were appended returns N, increases total_lines by
\* exactly N and leaves the entries indexed before as they were.
C12_ExtendCountsAppendedLines ==
    UpdatedAfterAppend =>
        LET N == Len(BuildLines(fileBytes)) - Len(last.pre.lines) IN
        /\ last.res = Some(N)
        /\ meta.total_lines = last.pre.meta.total_lines + N
        /\ SubSeq(lines, 1, Len(last.pre.lines)) = last.pre.lines

\* C13: extend() on a file smaller than the indexed size fails with ValueError and
\* leaves the table, the metadata and the index file as they were; a rebuild()
\* of such an index succeeds and yields the table and metadata of a build of the
\* file, and saves them.
C13_ShrunkFileRefused ==
    /\ (last.op = "update" /\ last.stat.size < last.pre.meta.file_size)
         => /\ last.res = [ok |-> FALSE, err |-> "ValueError"]
            /\ lines = last.pre.lines
            /\ meta = last.pre.meta
            /\ indexFile = last.pre.indexFile
    /\ (last.op = "update" /\ last.res = [ok |-> FALSE, err |-> "ValueError"])
         => last.stat.size < last.pre.meta.file_size
    /\ (last.op = "rebuild" /\ last.stat.size < last.pre.meta.file_size)
         => /\ last.res = "ok"
            /\ lines = BuildLines(fileBytes)
            /\ meta = BuildMeta(fileBytes, last.stat.size, last.stat.mtime)
            /\ meta.total_lines = Len(BuildLines(fileBytes))
            /\ LoadIndex(indexFile) = Some([meta |-> meta, lines |-> lines])

\* update() has just refused a file that lost bytes of an index of two lines.
C13_Witness ==
    /\ last.op = "update"
    /\ last.res = [ok |-> FALSE, err |-> "ValueError"]
    /\ Len(lines) = 2
    /\ Len(BuildLines(fileBytes)) = 1

\* The index file the last call found loads and carries the fingerprint of the
\* file as the call's stat() saw it.
FoundFresh ==
    /\ LoadIndex(last.pre.indexFile).ok
    /\ LoadIndex(last.pre.indexFile).v.meta.file_size = last.stat.size
    /\ LoadIndex(last.pre.indexFile).v.meta.file_mtime = last.stat.mtime

\* C14: a new index object adopts the persisted index, unchanged, exactly when it
\* loads and its stored (size, mtime) is the live file's; otherwise it builds the
\* index from the file and saves it. Either way its fingerprint is the one its
\* stat() of the file returned.
C14_AdoptIffFresh ==
    last.op = "open" =>
        /\ FoundFresh
             => /\ last.res = "loaded"
                /\ lines = LoadIndex(last.pre.indexFile).v.lines
                /\ meta = LoadIndex(last.pre.indexFile).v.meta
                /\ indexFile = last.pre.indexFile
        /\ ~FoundFresh
             => /\ last.res = "built"
                /\ lines = BuildLines(fileBytes)
                /\ meta.total_lines = Len(lines)
                /\ LoadIndex(indexFile) = Some([meta |-> meta, lines |-> lines])
        /\ meta.file_size = last.stat.size
        /\ meta.file_mtime = last.stat.mtime

\* A persisted index was adopted on the strength of its fingerprint although the
\* file no longer has the lines it lists.
C14_Witness ==
    /\ last.op = "open"
    /\ last.res = "loaded"
    /\ meta.file_size = Len(fileBytes)
    /\ meta.file_mtime = fileMtime
    /\ lines # BuildLines(fileBytes)

\* C15: get_offset(n) raises IndexError exactly when n < 0 or n >= total_lines;
\* otherwise it returns the (offset, length) of entry n. It changes neither the
\* table, the metadata nor the persisted index.
C15_LookupBounds ==
    last.op = "get_offset" =>
        /\ last.res = Err("IndexError")
             <=> (last.arg < 0 \/ last.arg >= meta.total_lines)
        /\ (last.arg >= 0 /\ last.arg < meta.total_lines)
             => last.res = Some(<<lines[last.arg + 1].offset, lines[last.arg + 1].length>>)
        /\ lines = last.pre.lines
        /\ meta = last.pre.meta
        /\ indexFile = last.pre.indexFile

\* A lookup one past the last entry of a table of two lines raised.
C15_Witness ==
    /\ last.op = "get_offset"
    /\ meta.total_lines = 2
    /\ last.arg = 2
    /\ last.res = Err("IndexError")

\* The file has fewer bytes at entry n's offset than the entry's length.
ShortAt(n) == lines[n + 1].offset + lines[n + 1].length > Len(fileBytes)

\* C16: read_line(n) on an indexed line of which fewer than `length` bytes are
\* left in the file raises the corrupted-line error; it returns no value.
C16_ShortReadRaises ==
    (/\ last.op = "read_line"
     /\ last.arg >= 0
     /\ last.arg < Len(lines)
     /\ ShortAt(last.arg))
        => last.res = Err("LineCorruptedError")

\* The text of indexed line n: its `length` bytes at its offset, terminators
\* stripped.
IndexedLineText(n) ==
    RStrip(ReadAt(fileBytes, lines[n + 1].offset, lines[n + 1].length))

\* C17: iter_from(s), with a negative s read as 0, yields nothing when
\* s >= total_lines and otherwise exactly the indexed lines s .. total_lines - 1
\* in order, also when the file has grown since the index was built.
C17_IterYieldsIndexedLines ==
    (/\ last.op = "iter_from"
     /\ meta.file_size <= Len(fileBytes))
        => LET s == IF last.arg < 0 THEN 0 ELSE last.arg
           IN  /\ last.res.ok
               /\ s >= meta.total_lines => last.res.v = <<>>
               /\ s < meta.total_lines
                    => /\ Len(last.res.v) = meta.total_lines - s
                       /\ \A i \in 1..Len(last.res.v) :
                             i <= meta.total_lines - s
                                 => last.res.v[i] = IndexedLineText(s + i - 1)

\* C18: sample(n, seed) with n >= 0 returns the records of m = min(n, total_lines)
\* pairwise distinct line numbers, in the order the numbers were drawn (the empty
\* list for an empty file or n = 0); it fails only when a drawn line fails to
\* decode.
C18_SampleInDrawOrder ==
    (last.op = "sample" /\ last.arg[1] >= 0) =>
        LET m == IF last.arg[1] < meta.total_lines THEN last.arg[1] ELSE meta.total_lines
            d == last.draw
        IN  /\ Len(d) = m
            /\ \A i \in 1..m : d[i] \in 0..(meta.total_lines - 1)
            /\ \A i, j \in 1..m : i # j => d[i] # d[j]
            /\ last.res.ok
                 => /\ Len(last.res.v) = m
                    /\ \A i \in 1..m : last.res.v[i] = ReadJsonOf(d[i]).v
            /\ ~last.res.ok => \E i \in 1..m : ~ReadJsonOf(d[i]).ok

\* Two lines with different records were drawn in descending line order.
C18_Witness ==
    /\ last.op = "sample"
    /\ last.res.ok
    /\ Len(last.draw) = 2
    /\ last.draw[1] > last.draw[2]
    /\ Len(last.res.v) = 2
    /\ last.res.v[1] # last.res.v[2]

C20_IndexStoreRoundTrip ==
    last.op = "save" =>
        /\ LoadIndex(indexFile).ok
        /\ LoadIndex(indexFile).v.meta = meta
        /\ DOMAIN LoadIndex(indexFile).v.meta.checkpoints \subseteq 0..Len(lines)
        /\ Len(LoadIndex(indexFile).v.lines) = Len(lines)
        /\ \A i \in 1..Len(lines) :
              /\ LoadIndex(indexFile).v.lines[i].line_number = i - 1
              /\ LoadIndex(indexFile).v.lines[i].offset = lines[i].offset
              /\ LoadIndex(indexFile).v.lines[i].length = lines[i].length
        /\ LoadIndex(indexFile).v.lines = lines
        /\ indexFile = SaveIndex(meta, lines)

\* A table of three lines with two checkpoints was saved over an index file that
\* did not parse.
C20_Witness ==
    /\ last.op = "save"
    /\ last.pre.indexFile = GarbageFile
    /\ Len(lines) = 3
    /\ DOMAIN meta.checkpoints = {0, 2}
    /\ LoadIndex(indexFile).ok

\* An index file that is missing, does not parse, has no or another
\* format_version, lacks a section or has a section of the wrong shape.
Defective(f) ==
    \/ ~f.exists
    \/ ~f.parsable
    \/ f.version # INDEX_VERSION
    \/ f.sections # {"meta", "lines"}
    \/ f.wellformed # {"meta", "lines"}

\* C21: load_index returns none for every defective index file, and a new index
\* object that finds one builds the index from the source file and saves it.
C21_DefectiveIndexIsAbsent ==
    /\ (last.op = "load_index" /\ Defective(indexFile)) => last.res = None
    /\ (last.op = "open" /\ Defective(last.pre.indexFile))
          => /\ last.res = "built"
             /\ lines = BuildLines(fileBytes)
             /\ meta.file_size = last.stat.size
             /\ meta.file_mtime = last.stat.mtime
             /\ ~Defective(indexFile)
             /\ LoadIndex(indexFile) = Some([meta |-> meta, lines |-> lines])

\* An index file of another format version, whose fingerprint is the live
\* file's, was found and the index was built instead.
C21_Witness ==
    /\ last.op = "open"
    /\ last.res = "built"
    /\ last.pre.indexFile.exists
    /\ last.pre.indexFile.parsable
    /\ last.pre.indexFile.version = "0.1"
    /\ last.pre.indexFile.meta.file_size = last.stat.size
    /\ last.pre.indexFile.meta.file_mtime = last.stat.mtime
    /\ Len(lines) = 2

\* C22: load_progress raises for no content of the progress file. It returns
\* none for a missing file, content that does not parse, a JSON value or a jobs
\* value that is not an object, a missing or other format_version and a job
\* record without a required field, and the empty map when the version is right
\* and there is no jobs section.
C22_LoadNeverRaises ==
    last.op = "load" =>
        /\ ~Raised(last.res)
        /\ (\/ ~progressFile.exists
            \/ progressFile.json # "object"
            \/ progressFile.format_version # FORMAT_VERSION
            \/ progressFile.jobs_kind = "array"
            \/ progressFile.incomplete # {})
              => last.res = None
        /\ (/\ progressFile.exists
            /\ progressFile.json = "object"
            /\ progressFile.format_version = FORMAT_VERSION
            /\ progressFile.jobs_kind = "absent")
              => last.res = [ok |-> TRUE, jobs |-> EmptyJobs]

\* C23: loading what save_progress wrote gives back a map with the same job ids
\* and, for each, the same position, file_size, file_mtime, status, created_at,
\* last_checkpoint_at and completed_at; nothing of what the progress file held
\* before the save remains.
C23_ProgressRoundTrip ==
    last.op = "save" =>
        /\ LoadProgress(progressFile).ok
        /\ DOMAIN LoadProgress(progressFile).jobs = DOMAIN last.arg
        /\ \A j \in DOMAIN last.arg :
              /\ LoadProgress(progressFile).jobs[j].job_id = j
              /\ LoadProgress(progressFile).jobs[j].position = last.arg[j].position
              /\ LoadProgress(progressFile).jobs[j].file_size = last.arg[j].file_size
              /\ LoadProgress(progressFile).jobs[j].file_mtime = last.arg[j].file_mtime
              /\ LoadProgress(progressFile).jobs[j].status = last.arg[j].status
              /\ LoadProgress(progressFile).jobs[j].created_at = last.arg[j].created_at
              /\ LoadProgress(progressFile).jobs[j].last_checkpoint_at
                    = last.arg[j].last_checkpoint_at
              /\ LoadProgress(progressFile).jobs[j].completed_at = last.arg[j].completed_at
        /\ progressFile = SaveProgress(last.arg)

\* A map with a completed and an unfinished cursor was saved over a progress file
\* that held a JSON array.
C23_Witness ==
    /\ last.op = "save"
    /\ last.pre.exists
    /\ last.pre.json = "array"
    /\ DOMAIN last.arg = Jobs
    /\ last.arg["j1"].completed_at = Now
    /\ last.arg["j2"].completed_at = Null
    /\ LoadProgress(progressFile).ok

\* C24: update_job_progress on a progress file that loads puts the cursor under
\* its job id and leaves every other stored cursor as it was; on a missing file,
\* or one that load_progress reports as none, it writes a file holding only that
\* cursor.
C24_UpdateOneFrame ==
    (last.op = "update_one" /\ ~Raised(LoadProgress(last.pre))) =>
        /\ last.res = Some("-")
        /\ LoadProgress(progressFile).ok
        /\ LoadProgress(progressFile).jobs[last.arg.job_id] = last.arg
        /\ LoadProgress(last.pre).ok
             => /\ DOMAIN LoadProgress(progressFile).jobs
                      = DOMAIN LoadProgress(last.pre).jobs \cup {last.arg.job_id}
                /\ \A j \in DOMAIN LoadProgress(last.pre).jobs \ {last.arg.job_id} :
                      LoadProgress(progressFile).jobs[j] = LoadProgress(last.pre).jobs[j]
        /\ ~LoadProgress(last.pre).ok
             => DOMAIN LoadProgress(progressFile).jobs = {last.arg.job_id}

\* The cursor of j1 was replaced in a file that also holds a cursor of j2.
C24_Witness ==
    /\ last.op = "update_one"
    /\ last.arg.job_id = "j1"
    /\ HasJob(last.pre, "j1")
    /\ HasJob(last.pre, "j2")
    /\ StoredJob(last.pre, "j1") # last.arg
    /\ HasJob(progressFile, "j2")
    /\ StoredJob(progressFile, "j1") = last.arg

\* C25: delete_job_progress returns true or false, true exactly when the progress
\* file held the job id; on true that entry is gone and every other cursor is as
\* it was, on false (a missing file, a file that does not load, an id that is not
\* there) the file is as it was.
C25_DeleteOne ==
    last.op = "delete_one" =>
        /\ last.res \in {Some(TRUE), Some(FALSE)}
        /\ last.res = Some(TRUE) <=> HasJob(last.pre, last.arg)
        /\ last.res = Some(TRUE)
             => /\ LoadProgress(progressFile).ok
                /\ DOMAIN LoadProgress(progressFile).jobs
                      = DOMAIN LoadProgress(last.pre).jobs \ {last.arg}
                /\ \A j \in DOMAIN LoadProgress(progressFile).jobs :
                      LoadProgress(progressFile).jobs[j] = LoadProgress(last.pre).jobs[j]
        /\ last.res = Some(FALSE) => progressFile = last.pre

\* C26: once two writers with different job ids have each finished a checkpoint
\* into the same progress file and neither is in the middle of another, the file
\* holds both cursors, each at the position its writer checkpointed last.
C26_NoLostUpdate ==
    (/\ \A w \in Writers : rmw[w] = Idle
     /\ \A w \in Writers : ckpt[JobOf(w)] # {})
        => \A w \in Writers :
              /\ HasJob(progressFile, JobOf(w))
              /\ ckpt[JobOf(w)] = {StoredJob(progressFile, JobOf(w)).position}

\* C27: read-only calls interleaved on one index each return what they return
\* run alone: an iteration that has ended has yielded the lines iter_from yields
\* from its start, a read_line returns its line, and table and metadata are those
\* of the build; this with and without a file handle kept open and shared.
C27_InterleavedReadsAgree ==
    /\ \A r \in Readers :
          iters[r].pc = "done" => iters[r].out = IterFromAll(iters[r].start)
    /\ last.op = "read_line" => last.res = Some(IndexedLineText(last.arg))
    /\ lines = BuildLines(fileBytes)
    /\ meta = BuildMeta(fileBytes, Len(fileBytes), fileMtime)

\* C28: once the scope of an async stream has been left, on whatever path, the
\* stream is closed and the generator it handed out is not left suspended: it
\* ran to its end or was closed; a generator made from a closed stream yields
\* nothing.
C28_StreamReleasedOnExit ==
    (stream.made /\ stream.exited) =>
        /\ stream.closed
        /\ stream.gen.st # "suspended"
        /\ (last.op = "anext" /\ stream.gen.k = 0) => ~last.res.ok

\* C29: within a session the position moves only with the items handed to the
\* caller: a call other than reset() leaves it where it was, except a next()
\* that yields an item, which adds one; checkpoint() does not matter, and a next()
\* that fails to decode its line adds nothing.
C29_PositionCountsItems ==
    [][\A p \in Procs :
          (bp[p].inWith /\ bp'[p].inWith /\ last'.op # "reset")
              => bp'[p].position =
                    bp[p].position +
                    (IF last'.op = "next" /\ last'.proc = p /\ last'.res = "yield"
                     THEN 1 ELSE 0)]_vars

\* C30: on an unchanged file every item (line_number, record) a session yields
\* carries the record of line line_number of the source file, also after reset()
\* in the middle of an iteration and in a second iteration of the session.
C30_ItemIsItsLine ==
    (last.op = "next" /\ last.res = "yield" /\ InSync) =>
        /\ last.item[1] < Len(BuildLines(fileBytes))
        /\ last.item[2] = Record(bp[last.proc].as_json, FileLineText(last.item[1]))

\* C31: in every state of a successfully entered session 0 <= position <=
\* total_lines of the bound index, also when the source file was appended to after
\* the index was built; so progress stays within 0..100 and no checkpoint()
\* persists a position above total_lines.
C31_PositionWithinIndex ==
    \A p \in Procs :
        bp[p].inWith =>
            /\ 0 <= bp[p].position /\ bp[p].position <= total_lines
            /\ (last.op = "checkpoint" /\ last.proc = p /\ last.res = "ok") =>
                  StoredJob(progressFile, bp[p].job_id).position <= total_lines

\* C32: after extend() returns successfully, also when it returns 0, the
\* fingerprint (file_size, file_mtime) of the in-memory metadata is the file's
\* current (size, mtime).
C32_ExtendRefreshesFingerprint ==
    (last.op = "update" /\ last.res.ok) =>
        /\ meta.file_size = Len(fileBytes)
        /\ meta.file_mtime = fileMtime

\* The number of bytes a line table covers.
Covered(ls) == IF Len(ls) = 0 THEN 0 ELSE ls[Len(ls)].offset + ls[Len(ls)].length

\* C33: after a build and after an extend, metadata.file_size is the number of
\* bytes the table covers, also when another program appends to the file while
\* the scan is running; so no byte range is indexed twice.
C33_FingerprintIsPostScan ==
    (\/ last.op = "rebuild"
     \/ last.op = "open" /\ last.res = "built"
     \/ last.op = "update" /\ last.res.ok) =>
        /\ meta.file_size = Covered(lines)
        /\ \A i \in 1..(Len(lines) - 1) : lines[i].offset + lines[i].length <= lines[i + 1].offset

\* C34: after any sequence of build, load of a persisted index, extend and rebuild
\* the checkpoints map holds exactly the line numbers k < total_lines with
\* k mod checkpoint_interval = 0, for the interval the metadata records, and
\* checkpoints[k] is the offset of table entry k.
C34_CheckpointsEveryInterval ==
    /\ DOMAIN meta.checkpoints =
          {k \in 0..(meta.total_lines - 1) : k % meta.checkpoint_interval = 0}
    /\ \A k \in DOMAIN meta.checkpoints :
          k < Len(lines) /\ meta.checkpoints[k] = lines[k + 1].offset

\* C35: in an async stream yielded_count is the number of items produced so far
\* and position is the line number of the next line to be yielded, whatever
\* start_line (negative or past the end), skip, limit and decode policy.
C35_StreamCounts ==
    [][stream'.made =>
          /\ stream'.yielded_count =
                (IF stream.made THEN stream.yielded_count ELSE 0) +
                (IF last'.op = "anext" /\ last'.res.ok THEN 1 ELSE 0)
          /\ (~stream'.closed /\ stream'.gen.st \in {"none", "new", "suspended"}
              /\ StreamHasNext(stream', stream'.gen)) =>
                stream'.position = StreamNextLine(stream', stream'.gen)]_vars

\* A job report is right for the stored cursor it was made from.
InfoOk(info, job) ==
    /\ 0 <= info.progress_pct.num
    /\ info.progress_pct.num <= 100 * info.progress_pct.den
    /\ info.progress_pct = ProgressPct(job.position, total_lines)
    /\ info.is_stale <=> FingerprintDiffers(job)

\* C36: for every stored job the report of get_job / list_jobs has progress_pct
\* within 0..100, equal to position / total_lines * 100 (100 for no lines), and
\* is_stale exactly when the stored fingerprint differs from the file's, whatever
\* the file and the index, a file cut short since the checkpoint included.
C36_JobInfoInRange ==
    /\ (last.op = "get_job" /\ last.res.ok /\ last.res.v.ok) =>
          InfoOk(last.res.v.v, StoredJob(progressFile, last.arg))
    /\ (last.op = "list_jobs" /\ last.res.ok) =>
          \A j \in DOMAIN last.res.v : InfoOk(last.res.v[j], StoredJob(progressFile, j))

\* C37: extend refines build: after appends to the file, each followed by an
\* extend(), the table, total_lines and the checkpoints are those of a build of
\* the file as it is, also when the last indexed line had no terminator before
\* the append.
C37_ExtendRefinesBuild ==
    UpdatedAfterAppend =>
        /\ lines = BuildLines(fileBytes)
        /\ meta.total_lines = Len(BuildLines(fileBytes))
        /\ meta.checkpoints = CheckpointsOf(BuildLines(fileBytes))

\* C38: a persisted cursor with status completed has the position total_lines of
\* the file it was completed against, also when the job was drained without a
\* checkpoint() call.
C38_CompletedAtEnd ==
    \A p \in Procs :
        (IsExit(last.op) /\ last.proc = p /\ last.res = "completed") =>
            /\ HasJob(progressFile, bp[p].job_id)
            /\ StoredJob(progressFile, bp[p].job_id).status = "completed"
            /\ StoredJob(progressFile, bp[p].job_id).position = Len(BuildLines(fileBytes))

\* C39: for one job id on an unchanged file with non-overlapping sessions the
\* persisted position never decreases from one write of the progress file to the
\* next, unless the cursor is deleted by a reset or a delete in between.
C39_PositionNeverDecreases ==
    [][\A j \in SessionJobs :
          (HasJob(progressFile, j) /\ HasJob(progressFile', j)) =>
              StoredJob(progressFile', j).position >= StoredJob(progressFile, j).position]_vars

\* C40: completed is terminal: once the persisted status of a job id is completed,
\* no Enter, iteration, checkpoint() or Exit of any processor object for that id
\* writes it back to in_progress or clears completed_at; only a reset or a delete
\* removes the record.
C40_CompletedIsTerminal ==
    [][\A j \in SessionJobs :
          (/\ HasJob(progressFile, j)
           /\ StoredJob(progressFile, j).status = "completed"
           /\ last'.op \notin {"reset", "reset_job"}) =>
              /\ HasJob(progressFile', j)
              /\ StoredJob(progressFile', j).status = "completed"
              /\ StoredJob(progressFile', j).completed_at # Null]_vars

====
